---- MODULE Spec2Model ----
(***************************************************************************)
(* A model of the yamlator / yamler schema validator.                      *)
(*                                                                         *)
(* Two validation engines live in the repository's history and both are    *)
(* modelled here:                                                          *)
(*   - YamlerWrangler (src/yamler/wrangler.py): one recursive method that  *)
(*     writes its findings into a dict keyed by field name;                *)
(*   - the validator chain (src/yamlator/validators/...): one object per   *)
(*     type kind, each either handling the rule type or handing it to the  *)
(*     next validator, appending findings to one list.                     *)
(* The schema both engines read is built by the operators of the lark      *)
(* transformer (src/src/parser.py).                                        *)
(*                                                                         *)
(* Python values are tagged records [t |-> <type name>, v |-> <payload>];  *)
(* a Python str is a sequence of one-character strings, a list a sequence  *)
(* of values and a dict an insertion-ordered sequence of key/value pairs.  *)
(***************************************************************************)
EXTENDS Integers, Sequences, FiniteSets, TLC

VARIABLES
    schema_content,   \* the schema source handed to parse_schema
    seen_constructs,  \* SchemaTransformer.seen_constructs (class attribute)
    instructions,     \* the dict returned by SchemaTransformer.start
    yaml_data,        \* the data document handed to the engine
    pc,               \* "init", "parsed", "parse_error", "wrangled",
                      \* "validated", "called"
    w_violations,     \* YamlerWrangler.wrangle: the returned dict
    w_raised,         \* YamlerWrangler.wrangle: the exception that escaped
    w_log,            \* YamlerWrangler: the steps taken, in order
    v_violations,     \* validator chain: the shared violations list
    v_log,            \* validator chain: validators entered and findings, in order
    compiled,         \* the calls of parse_schema so far, with their outcomes
    loaded,           \* parse_yamlator_schema: its arguments and its outcome
    second,           \* the outcome of validating the same data a second time
    status,           \* main: its arguments and its outcome
    fetched,          \* fetch_schema_path: its argument and its outcome
    loader            \* parse_yamlator_schema step by step: the calls in progress

vars == <<schema_content, seen_constructs, instructions, yaml_data, pc,
          w_violations, w_raised, w_log, v_violations, v_log,
          compiled, loaded, second, status, fetched, loader>>

----------------------------------------------------------------------------
(* Bounds *)

\* longest list in a data document
MaxLen == 3

\* calls of parse_schema in one process
MaxCompiles == 2

\* longest schema path, in characters
MaxPath == 4

\* the interpreter's limit on nested calls of parse_yamlator_schema
MaxDepth == 8

----------------------------------------------------------------------------
(* Python values *)

None == [t |-> "NoneType"]
PyStr(s) == [t |-> "str", v |-> s]
PyInt(n) == [t |-> "int", v |-> n]
PyFloat(n) == [t |-> "float", v |-> n]
PyBool(b) == [t |-> "bool", v |-> b]
PyList(s) == [t |-> "list", v |-> s]
PyDict(s) == [t |-> "dict", v |-> s]

\* one key/value pair of a dict
KV(k, val) == [k |-> k, v |-> val]

\* type(x).__name__
TypeOf(x) == x.t

\* isinstance(x, str)
IsStr(x) == x.t = "str"

\* the keys of a dict's pair sequence
Keys(s) == {s[i].k : i \in 1..Len(s)}

\* dict.get(key, None) on the pair sequence of a dict
DictGet(s, key) ==
    IF key \in Keys(s)
    THEN s[CHOOSE i \in 1..Len(s) : s[i].k = key].v
    ELSE None

\* d[key] = val on the pair sequence of a dict: an existing key keeps its place
DictSet(s, key, val) ==
    IF key \in Keys(s)
    THEN [i \in 1..Len(s) |-> IF s[i].k = key THEN KV(key, val) ELSE s[i]]
    ELSE Append(s, KV(key, val))

\* all sequences over S of length at most n
SeqUpTo(S, n) == UNION {[1..k -> S] : k \in 0..n}

----------------------------------------------------------------------------
(* The type graph: src/src/types.py *)

SchemaTypes == {"STR", "INT", "FLOAT", "BOOL", "MAP", "LIST", "ENUM",
                "RULESET", "ANY", "REGEX"}

\* RuleType(type, lookup, sub_type, regex); an argument left out is None
RuleType(type, lookup, sub_type, regex) ==
    [schema_type |-> type, lookup |-> lookup, sub_type |-> sub_type,
     regex |-> regex]

Rule(name, rtype, is_required) ==
    [name |-> name, rtype |-> rtype, is_required |-> is_required]

EnumItem(name, value) == [name |-> name, value |-> value]

YamlatorRuleset(name, rules) ==
    [name |-> name, type |-> "RULESET", rules |-> rules]

YamlatorEnum(name, items) ==
    [name |-> name, type |-> "ENUM", items |-> items]

----------------------------------------------------------------------------
(* The lark transformer: src/src/parser.py.  A method that also writes     *)
(* seen_constructs returns [ret, seen]; container_type returns [raised]    *)
(* when it raises.                                                         *)

required_rule(tokens) == Rule(tokens[1], tokens[2], TRUE)

optional_rule(tokens) == Rule(tokens[1], tokens[2], FALSE)

ruleset(tokens, seen) ==
    [ret |-> YamlatorRuleset(tokens[1], Tail(tokens)),
     seen |-> DictSet(seen, tokens[1], "RULESET")]

schema_entry(rules) == YamlatorRuleset("main", rules)

str_type == RuleType("STR", None, None, None)

int_type == RuleType("INT", None, None, None)

float_type == RuleType("FLOAT", None, None, None)

bool_type == RuleType("BOOL", None, None, None)

any_type == RuleType("ANY", None, None, None)

\* the list rule building a map type
list_type_as_map(tokens) == RuleType("MAP", None, tokens[1], None)

list_type(tokens) == RuleType("LIST", None, tokens[1], None)

\* the map rule building a list type
map_type_as_list(tokens) == RuleType("LIST", None, tokens[1], None)

map_type(tokens) == RuleType("MAP", None, tokens[1], None)

regex_type(tokens) == RuleType("REGEX", None, None, tokens[1])

enum_item(tokens) == EnumItem(tokens[1], tokens[2])

RECURSIVE enum_items_by_name(_, _)
\* the loop keying the items by their symbolic name: enums[item.name] = item
enum_items_by_name(items, enums) ==
    IF items = <<>> THEN enums
    ELSE enum_items_by_name(Tail(items),
                            DictSet(enums, Head(items).name, Head(items)))

RECURSIVE enum_items(_, _)
\* the loop of SchemaTransformer.enum: enums[item.value] = item
enum_items(items, enums) ==
    IF items = <<>> THEN enums
    ELSE enum_items(Tail(items), DictSet(enums, Head(items).value, Head(items)))

enum(tokens, seen) ==
    [ret |-> YamlatorEnum(tokens[1], enum_items(Tail(tokens), <<>>)),
     seen |-> DictSet(seen, tokens[1], "ENUM")]

container_type(token, seen) ==
    LET schema_type == DictGet(seen, token[1])
    IN  IF token[1] \notin Keys(seen)
        THEN [raised |-> "ConstructNotFoundError", name |-> token[1]]
        ELSE [raised |-> "none",
              ret |-> RuleType(schema_type, token[1], None, None)]

\* _RulesetInstructionHandler.handle, then _EnumInstructionHandler.handle
handle(instruction, acc) ==
    IF instruction.type = "RULESET"
    THEN [acc EXCEPT !.rules = DictSet(@, instruction.name, instruction)]
    ELSE IF instruction.type = "ENUM"
    THEN [acc EXCEPT !.enums = DictSet(@, instruction.name, instruction)]
    ELSE acc

RECURSIVE handle_all(_, _)
handle_all(insts, acc) ==
    IF insts = <<>> THEN acc
    ELSE handle_all(Tail(insts), handle(Head(insts), acc))

\* del rules['main'] on the pair sequence of a dict
DictDel(s, key) == SelectSeq(s, LAMBDA e : e.k # key)

\* start without the del of the entry point
start_keeping_main(insts) ==
    LET acc  == handle_all(insts, [rules |-> <<>>, enums |-> <<>>])
    IN  [main  |-> DictGet(acc.rules, "main"),
         rules |-> acc.rules,
         enums |-> acc.enums]

start(insts) ==
    LET acc  == handle_all(insts, [rules |-> <<>>, enums |-> <<>>])
        root == DictGet(acc.rules, "main")
    IN  [main  |-> root,
         rules |-> IF root # None THEN DictDel(acc.rules, "main") ELSE acc.rules,
         enums |-> acc.enums]

----------------------------------------------------------------------------
(* parse_schema: src/src/parser.py.  The schema text is given as its parse *)
(* tree: a sequence of declarations                                        *)
(*   [decl |-> "enum", name, items], [decl |-> "ruleset", name, fields],   *)
(*   [decl |-> "schema", fields]                                           *)
(* whose fields are [name, type, required] and whose type expressions are  *)
(*   [op |-> "str"], ..., [op |-> "list", arg], [op |-> "map", arg],       *)
(*   [op |-> "regex", pattern], [op |-> "ref", name].                      *)
(* lark reduces the tree bottom-up and left to right.                      *)
(* A stretch of the text the grammar does not accept is the declaration    *)
(*   [decl |-> "unexpected", like, line, column]                           *)
(* where like is the exemplar of _handle_syntax_errors that fails in the   *)
(* same way as the text does, "" when none does.                           *)

TStr == [op |-> "str"]
TInt == [op |-> "int"]
TFloat == [op |-> "float"]
TBool == [op |-> "bool"]
TAny == [op |-> "any"]
TList(arg) == [op |-> "list", arg |-> arg]
TMap(arg) == [op |-> "map", arg |-> arg]
TRegex(pattern) == [op |-> "regex", pattern |-> pattern]
TRef(name) == [op |-> "ref", name |-> name]
Field(name, type, required) == [name |-> name, type |-> type, required |-> required]

Ok(ret) == [raised |-> "none", ret |-> ret]

RECURSIVE reduce_type(_, _)
\* the type rule and the *_type rules below it
reduce_type(expr, seen) ==
    CASE expr.op = "str"   -> Ok(str_type)
      [] expr.op = "int"   -> Ok(int_type)
      [] expr.op = "float" -> Ok(float_type)
      [] expr.op = "bool"  -> Ok(bool_type)
      [] expr.op = "any"   -> Ok(any_type)
      [] expr.op = "regex" -> Ok(regex_type(<<expr.pattern>>))
      [] expr.op = "ref"   -> container_type(<<expr.name>>, seen)
      [] expr.op = "list"  ->
            LET sub == reduce_type(expr.arg, seen)
            IN  IF sub.raised # "none" THEN sub ELSE Ok(list_type(<<sub.ret>>))
      [] expr.op = "map"   ->
            LET sub == reduce_type(expr.arg, seen)
            IN  IF sub.raised # "none" THEN sub ELSE Ok(map_type(<<sub.ret>>))

RECURSIVE reduce_fields(_, _, _)
\* required_rule / optional_rule over the fields of one block
reduce_fields(fields, seen, rules) ==
    IF fields = <<>> THEN Ok(rules)
    ELSE LET f == Head(fields)
             t == reduce_type(f.type, seen)
         IN  IF t.raised # "none" THEN t
             ELSE reduce_fields(Tail(fields), seen,
                    Append(rules, IF f.required
                                  THEN required_rule(<<f.name, t.ret>>)
                                  ELSE optional_rule(<<f.name, t.ret>>)))

RECURSIVE reduce_items(_, _)
reduce_items(items, out) ==
    IF items = <<>> THEN out
    ELSE reduce_items(Tail(items), Append(out, enum_item(Head(items))))

RECURSIVE reduce_decls(_, _, _)
\* transformer.transform(tokens): the declarations in order, then start
reduce_decls(decls, seen, insts) ==
    IF decls = <<>>
    THEN [raised |-> "none", ret |-> start(insts), seen |-> seen,
          context |-> None, args |-> <<>>]
    ELSE LET d == Head(decls)
         IN  IF d.decl = "enum"
             THEN LET e == enum(<<d.name>> \o reduce_items(d.items, <<>>), seen)
                  IN  reduce_decls(Tail(decls), e.seen, Append(insts, e.ret))
             ELSE LET rs == reduce_fields(d.fields, seen, <<>>)
                  IN  IF rs.raised # "none"
                      THEN \* VisitError: raise SchemaParseError(ve.__context__)
                           [raised |-> "SchemaParseError", ret |-> None,
                            seen |-> seen,
                            context |-> [raised |-> rs.raised, name |-> rs.name],
                            args |-> <<>>]
                      ELSE IF d.decl = "ruleset"
                      THEN LET r == ruleset(<<d.name>> \o rs.ret, seen)
                           IN  reduce_decls(Tail(decls), r.seen, Append(insts, r.ret))
                      ELSE reduce_decls(Tail(decls), seen,
                                        Append(insts, schema_entry(rs.ret)))

\* lark_parser.parse(schema_content): the text is parsed whole before any of
\* it is transformed; the first stretch the grammar rejects raises
lark_parse(content) ==
    LET rejected == {i \in 1..Len(content) : content[i].decl = "unexpected"}
    IN  IF rejected = {} THEN [raised |-> "none"]
        ELSE LET at == CHOOSE i \in rejected : \A j \in rejected : i <= j
             IN  [raised |-> "UnexpectedInput", at |-> at,
                  like |-> content[at].like, line |-> content[at].line,
                  column |-> content[at].column]

\* u.get_context(content): the text around the place of the error
get_context(u, content) == [around |-> u.at, of |-> content]

\* the exemplars of _handle_syntax_errors and the class each stands for
MalformedRulesetNameExamples == {"ruleset foo", "ruleset 1234Foo", "ruleset FOO"}
MalformedEnumNameExamples == {"enum foo", "enum 1234Foo", "enum FOO"}
MissingRulesExamples == {"ruleset Foo {}", "schema {}"}

\* the handler falling off its end when no exemplar matches
_handle_syntax_errors_unmatched_returns(u, content) ==
    [raised |-> IF u.like \in MalformedRulesetNameExamples
                THEN "MalformedRulesetNameError"
                ELSE IF u.like \in MalformedEnumNameExamples
                THEN "MalformedEnumNameError"
                ELSE IF u.like \in MissingRulesExamples
                THEN "MissingRulesError"
                ELSE "none",
     args |-> <<get_context(u, content), u.line, u.column>>]

\* _handle_syntax_errors: always raises, the class of the matching exemplar
\* or SchemaSyntaxError itself
_handle_syntax_errors(u, content) ==
    [raised |-> IF u.like \in MalformedRulesetNameExamples
                THEN "MalformedRulesetNameError"
                ELSE IF u.like \in MalformedEnumNameExamples
                THEN "MalformedEnumNameError"
                ELSE IF u.like \in MissingRulesExamples
                THEN "MissingRulesError"
                ELSE "SchemaSyntaxError",
     args |-> <<get_context(u, content), u.line, u.column>>]

parse_schema(content, seen) ==
    LET u == lark_parse(content)
    IN  IF u.raised # "none"
        THEN LET e == _handle_syntax_errors(u, content)
             IN  [raised |-> e.raised, ret |-> None, seen |-> seen,
                  context |-> None, args |-> e.args]
        ELSE reduce_decls(content, seen, <<>>)

----------------------------------------------------------------------------
(* YamlerWrangler: src/yamler/wrangler.py.                                 *)
(* The wrangler compares type(sub_data) with the rule's type object; the   *)
(* schema kinds STR, INT, FLOAT, BOOL, LIST and MAP stand for the Python   *)
(* types str, int, float, bool, list and dict, RULESET for 'ruleset'.      *)
(* The state threaded through the recursion is                             *)
(* [violations, raised, log]: the violations dict, the exception in flight *)
(* ("none" when there is none) and the steps taken.                        *)

\* rtype["type"].__name__ where rtype["type"] is a Python type
TypeName(kind) ==
    CASE kind = "STR"   -> "str"
      [] kind = "INT"   -> "int"
      [] kind = "FLOAT" -> "float"
      [] kind = "BOOL"  -> "bool"
      [] kind = "LIST"  -> "list"
      [] kind = "MAP"   -> "dict"
      [] OTHER          -> "<no type>"

HasTypeName(kind) == kind \in {"STR", "INT", "FLOAT", "BOOL", "LIST", "MAP"}

\* one step of the wrangler, as recorded in the log: "rule" for a rule of the
\* loop, "enter" for the recursive call, "raise" for an exception
WStep(ev, name, parent, rule, data) ==
    [ev |-> ev, key |-> name, parent |-> parent,
     kind |-> rule.rtype.schema_type, is_required |-> rule.is_required,
     data |-> data]

\* a write into the violations dict, as recorded in the log
WWrite(ev, name) == [ev |-> ev, key |-> name]

\* violations.get(name, {})
SubOf(violations, name) ==
    IF name \in Keys(violations) THEN DictGet(violations, name) ELSE <<>>

\* the violation filed under the wrong kind
_required_resolve_as_type(name, st) ==
    LET sub == SubOf(st.violations, name)
    IN  [st EXCEPT !.violations =
            DictSet(@, name, DictSet(sub, "type", <<name, " is missing">>)),
                   !.log = Append(@, WWrite("type", name))]

_required_resolve(name, st) ==
    LET sub == SubOf(st.violations, name)
    IN  [st EXCEPT !.violations =
            DictSet(@, name, DictSet(sub, "required", <<name, " is missing">>)),
                   !.log = Append(@, WWrite("required", name))]

\* the method without its first early return
_missing_type_resolve_unguarded(data, name, expected_type, st) ==
    IF TypeOf(data) = "dict" /\ expected_type = "RULESET" THEN st
    ELSE LET sub == SubOf(st.violations, name)
         IN  IF expected_type = "RULESET"
             THEN [st EXCEPT !.violations = DictSet(@, name,
                     DictSet(sub, "type", <<name, " should be of type(ruleset)">>)),
                             !.log = Append(@, WWrite("type", name))]
             ELSE IF ~HasTypeName(expected_type)
             THEN [st EXCEPT !.raised = "AttributeError",
                             !.log = Append(@, WWrite("raise", name))]
             ELSE [st EXCEPT !.violations = DictSet(@, name,
                     DictSet(sub, "type",
                       <<name, " should be of type(", TypeName(expected_type), ")">>)),
                             !.log = Append(@, WWrite("type", name))]

_missing_type_resolve(data, name, expected_type, st) ==
    IF data = None THEN st
    ELSE IF TypeOf(data) = "dict" /\ expected_type = "RULESET" THEN st
    ELSE LET sub == SubOf(st.violations, name)
         IN  IF expected_type = "RULESET"
             THEN [st EXCEPT !.violations = DictSet(@, name,
                     DictSet(sub, "type", <<name, " should be of type(ruleset)">>)),
                             !.log = Append(@, WWrite("type", name))]
             ELSE IF ~HasTypeName(expected_type)
             THEN \* expected_type.__name__ on an object that is no type
                  [st EXCEPT !.raised = "AttributeError",
                             !.log = Append(@, WWrite("raise", name))]
             ELSE [st EXCEPT !.violations = DictSet(@, name,
                     DictSet(sub, "type",
                       <<name, " should be of type(", TypeName(expected_type), ")">>)),
                             !.log = Append(@, WWrite("type", name))]

\* not isinstance(sub_data, rtype["type"]): bool is a subclass of int
type_differs_isinstance(sub_data, kind) ==
    /\ TypeOf(sub_data) # TypeName(kind)
    /\ ~(TypeOf(sub_data) = "bool" /\ kind = "INT")

\* type(sub_data) != rtype["type"]
type_differs(sub_data, kind) == TypeOf(sub_data) # TypeName(kind)

RECURSIVE _wrangle(_, _, _, _, _)
_wrangle(data, rules, st, parent, insts) ==
    IF rules = <<>> \/ st.raised # "none" THEN st
    ELSE IF TypeOf(data) # "dict"
    THEN \* data.get on a value that is no dict
         [st EXCEPT !.raised = "AttributeError",
                    !.log = Append(@, WStep("raise", Head(rules).name, parent,
                                            Head(rules), data))]
    ELSE
    LET rule     == Head(rules)
        name     == rule.name
        rtype    == rule.rtype
        required == rule.is_required
        sub_data == DictGet(data.v, name)
        st0 == [st EXCEPT !.log = Append(@, WStep("rule", name, parent, rule, sub_data))]
        st1 == IF type_differs(sub_data, rtype.schema_type)
               THEN _missing_type_resolve(sub_data, name, rtype.schema_type, st0)
               ELSE st0
    IN  IF st1.raised # "none" THEN st1
        ELSE IF sub_data # None /\ rtype.schema_type = "RULESET"
        THEN IF rtype.lookup \notin Keys(insts.rules)
             THEN \* ruleset is None: ruleset['rules'] raises
                  [st1 EXCEPT !.raised = "TypeError",
                              !.log = Append(@, WStep("raise", name, parent, rule, sub_data))]
             ELSE LET rs  == DictGet(insts.rules, rtype.lookup)
                      st2 == [st1 EXCEPT !.log = Append(@,
                                WStep("enter", name, parent, rule, sub_data))]
                      st3 == _wrangle(sub_data, rs.rules, st2, name, insts)
                  IN  _wrangle(data, Tail(rules), st3, parent, insts)
        ELSE IF sub_data = None /\ ~required
        THEN _wrangle(data, Tail(rules), st1, parent, insts)
        ELSE IF sub_data = None
        THEN _wrangle(data, Tail(rules), _required_resolve(name, st1), parent, insts)
        ELSE _wrangle(data, Tail(rules), st1, parent, insts)

\* YamlerWrangler.wrangle, for a wrangler constructed on insts
wrangle(data, insts) ==
    IF data = None
    THEN [violations |-> <<>>, raised |-> "ValueError", log |-> <<>>]
    ELSE IF insts.main = None
    THEN \* self._main is None: self._main.get raises
         [violations |-> <<>>, raised |-> "AttributeError", log |-> <<>>]
    ELSE _wrangle(data, insts.main.rules,
                  [violations |-> <<>>, raised |-> "none", log |-> <<>>],
                  "", insts)

----------------------------------------------------------------------------
(* The validator chain: src/yamlator/validators.                           *)
(* Every validator's validate either handles the rule type or calls        *)
(* super().validate, which hands the same arguments to the next validator. *)
(* The chain is wired in the dispatch order of the design:                 *)
(*   Optional, Required, AnyType, Regex, BuildInType, List, Map, Ruleset,  *)
(*   EnumType.                                                             *)
(* No validator reads the shared violations list, each only appends to it, *)
(* so a validator is modelled by what its call contributes, in order: the  *)
(* validators entered and the violations appended.  The violations list is *)
(* the violations of that log.                                             *)

\* the log entry of a validator being entered
Entered(validator, key, data, parent, rtype, is_required) ==
    << [ev |-> validator, key |-> key, parent |-> parent, rtype |-> rtype,
        data |-> data, is_required |-> is_required, violation |-> None] >>

\* self._violations.append(violation)
Appended(violation, key, data, parent, rtype, is_required) ==
    << [ev |-> "violation", key |-> key, parent |-> parent, rtype |-> rtype,
        data |-> data, is_required |-> is_required, violation |-> violation] >>

\* the violations list after the calls of a log
violations_of(log) ==
    LET appended == SelectSeq(log, LAMBDA e : e.ev = "violation")
    IN  [i \in 1..Len(appended) |-> appended[i].violation]

RequiredViolation(key, parent) ==
    [cat |-> "MissingRequired", key |-> key, parent |-> parent,
     message |-> <<key, " is required">>]

TypeViolation(key, parent, message) ==
    [cat |-> "TypeMismatch", key |-> key, parent |-> parent, message |-> message]

RegexTypeViolation(key, parent, data, regex) ==
    [cat |-> "PatternMismatch", key |-> key, parent |-> parent,
     data |-> data, regex |-> regex]

\* Validator._add_type_violation
_add_type_violation(key, data, parent, rtype, is_required, message) ==
    Appended(TypeViolation(key, parent, message),
             key, data, parent, rtype, is_required)

Digits == {"0", "1", "2", "3", "4", "5", "6", "7", "8", "9"}

\* regex.search(data): some non-empty run of the string matches the pattern
search(regex, string) ==
    \E i \in 1..Len(string), j \in 1..Len(string) :
        /\ i <= j
        /\ regex.from_start => i = 1
        /\ regex.to_end => j = Len(string)
        /\ \A k \in i..j : string[k] \in Digits

RECURSIVE OptionalValidator(_, _, _, _, _, _)
RECURSIVE RequiredValidator(_, _, _, _, _, _)
RECURSIVE AnyTypeValidator(_, _, _, _, _, _)
RECURSIVE RegexValidator(_, _, _, _, _, _)
RECURSIVE BuildInTypeValidator(_, _, _, _, _, _)
RECURSIVE ListValidator(_, _, _, _, _, _)
RECURSIVE MapValidator(_, _, _, _, _, _)
RECURSIVE RulesetValidator(_, _, _, _, _, _)
RECURSIVE EnumTypeValidator(_, _, _, _, _, _)
RECURSIVE check_items(_, _, _, _, _)
RECURSIVE check_rules(_, _, _, _)

\* the head of the chain
check(key, data, parent, rtype, is_required, schema) ==
    OptionalValidator(key, data, parent, rtype, is_required, schema)

OptionalValidator(key, data, parent, rtype, is_required, schema) ==
    Entered("Optional", key, data, parent, rtype, is_required)
      \o IF ~is_required /\ data = None THEN <<>>
         ELSE RequiredValidator(key, data, parent, rtype, is_required, schema)

RequiredValidator(key, data, parent, rtype, is_required, schema) ==
    Entered("Required", key, data, parent, rtype, is_required)
      \o IF is_required /\ data = None
         THEN Appended(RequiredViolation(key, parent),
                       key, data, parent, rtype, is_required)
         ELSE AnyTypeValidator(key, data, parent, rtype, is_required, schema)

\* the validator without its early return
AnyTypeValidator_no_return(key, data, parent, rtype, is_required, schema) ==
    Entered("AnyType", key, data, parent, rtype, is_required)
      \o RegexValidator(key, data, parent, rtype, is_required, schema)

AnyTypeValidator(key, data, parent, rtype, is_required, schema) ==
    LET is_any_type == (rtype.schema_type = "ANY")
    IN  Entered("AnyType", key, data, parent, rtype, is_required)
          \o IF is_any_type THEN <<>>
             ELSE RegexValidator(key, data, parent, rtype, is_required, schema)

\* the validator without its isinstance check: whatever is no matching
\* string is reported as a pattern mismatch
RegexValidator_no_isinstance(key, data, parent, rtype, is_required, schema) ==
    LET is_regex_type == (rtype.schema_type = "REGEX")
    IN  Entered("Regex", key, data, parent, rtype, is_required)
          \o IF ~is_regex_type
             THEN BuildInTypeValidator(key, data, parent, rtype, is_required, schema)
             ELSE IF ~IsStr(data) \/ ~search(rtype.regex, data.v)
             THEN Appended(RegexTypeViolation(key, parent, data, rtype.regex),
                           key, data, parent, rtype, is_required)
             ELSE <<>>

RegexValidator(key, data, parent, rtype, is_required, schema) ==
    LET is_regex_type == (rtype.schema_type = "REGEX")
    IN  Entered("Regex", key, data, parent, rtype, is_required)
          \o IF ~is_regex_type
             THEN BuildInTypeValidator(key, data, parent, rtype, is_required, schema)
             ELSE IF ~IsStr(data)
             THEN _add_type_violation(key, data, parent, rtype, is_required,
                                      <<key, " should be of type str">>)
             ELSE IF ~search(rtype.regex, data.v)
             THEN Appended(RegexTypeViolation(key, parent, data, rtype.regex),
                           key, data, parent, rtype, is_required)
             ELSE <<>>

BuildInTypeValidator(key, data, parent, rtype, is_required, schema) ==
    Entered("BuildInType", key, data, parent, rtype, is_required)
      \o IF rtype.schema_type \notin {"STR", "INT", "FLOAT", "BOOL"}
         THEN ListValidator(key, data, parent, rtype, is_required, schema)
         ELSE IF TypeOf(data) # TypeName(rtype.schema_type)
         THEN _add_type_violation(key, data, parent, rtype, is_required,
                 <<key, " should be of type ", TypeName(rtype.schema_type)>>)
         ELSE <<>>

\* check on every element of a list, or on every value of a dict
check_items(key, items, parent, sub_type, schema) ==
    IF items = <<>> THEN <<>>
    ELSE check(key, Head(items), parent, sub_type, FALSE, schema)
           \o check_items(key, Tail(items), parent, sub_type, schema)

ListValidator(key, data, parent, rtype, is_required, schema) ==
    Entered("List", key, data, parent, rtype, is_required)
      \o IF rtype.schema_type # "LIST"
         THEN MapValidator(key, data, parent, rtype, is_required, schema)
         ELSE IF TypeOf(data) # "list"
         THEN _add_type_violation(key, data, parent, rtype, is_required,
                                  <<key, " should be of type list">>)
         ELSE check_items(key, data.v, parent, rtype.sub_type, schema)

MapValidator(key, data, parent, rtype, is_required, schema) ==
    Entered("Map", key, data, parent, rtype, is_required)
      \o IF rtype.schema_type # "MAP"
         THEN RulesetValidator(key, data, parent, rtype, is_required, schema)
         ELSE IF TypeOf(data) # "dict"
         THEN _add_type_violation(key, data, parent, rtype, is_required,
                                  <<key, " should be of type map">>)
         ELSE check_items(key, [i \in 1..Len(data.v) |-> data.v[i].v], parent,
                          rtype.sub_type, schema)

\* check on every rule of a ruleset against the mapping data
check_rules(data, rules, parent, schema) ==
    IF rules = <<>> THEN <<>>
    ELSE check(Head(rules).name, DictGet(data.v, Head(rules).name), parent,
               Head(rules).rtype, Head(rules).is_required, schema)
           \o check_rules(data, Tail(rules), parent, schema)

RulesetValidator(key, data, parent, rtype, is_required, schema) ==
    Entered("Ruleset", key, data, parent, rtype, is_required)
      \o IF rtype.schema_type # "RULESET"
         THEN EnumTypeValidator(key, data, parent, rtype, is_required, schema)
         ELSE IF TypeOf(data) # "dict"
         THEN _add_type_violation(key, data, parent, rtype, is_required,
                                  <<key, " should be of type ruleset">>)
         ELSE check_rules(data, DictGet(schema.rules, rtype.lookup).rules, key,
                          schema)

EnumTypeValidator(key, data, parent, rtype, is_required, schema) ==
    Entered("EnumType", key, data, parent, rtype, is_required)
      \o IF rtype.schema_type # "ENUM" THEN <<>>
         ELSE IF data \notin Keys(DictGet(schema.enums, rtype.lookup).items)
         THEN _add_type_violation(key, data, parent, rtype, is_required,
                 <<key, " does not match any value in enum ", rtype.lookup>>)
         ELSE <<>>

\* a chain that is handed the violations list of the run before it instead of
\* a new list
validate_sharing_violations(data, schema) ==
    v_log \o check_rules(data, schema.main.rules, "-", schema)

\* validate(data, schema): the root rules against the document
validate(data, schema) == check_rules(data, schema.main.rules, "-", schema)

----------------------------------------------------------------------------
(* The inputs: schema sources and data documents *)

ok == PyStr(<<"o", "k">>)
fail == PyStr(<<"f", "a", "i", "l">>)
x == PyStr(<<"x">>)

\* "^[0-9]+$" and "[0-9]+": a run of digits, anchored or not
DigitsOnly == [class |-> "digit", from_start |-> TRUE, to_end |-> TRUE]
SomeDigits == [class |-> "digit", from_start |-> FALSE, to_end |-> FALSE]

\* the type expressions a field is declared with; Z is declared nowhere
TypeExprs ==
    {TStr, TInt, TFloat, TBool, TAny, TList(TInt), TList(TList(TInt)),
     TMap(TStr), TMap(TMap(TStr)), TRegex(DigitsOnly), TRegex(SomeDigits),
     TRef("Status"), TRef("P"), TRef("Z")}

\* enum Status { OK = "ok", FAIL = "fail" }
\* ruleset Q { a int required }
\* ruleset P { a <tP> required, q Q }
\* schema { a <t1> [required], p P [required] }
SchemaSource(t1, r1, r2, tP) ==
    << [decl |-> "enum", name |-> "Status",
        items |-> << <<PyStr(<<"O", "K">>), ok>>,
                     <<PyStr(<<"F", "A", "I", "L">>), fail>> >>],
       [decl |-> "ruleset", name |-> "Q",
        fields |-> << Field("a", TInt, TRUE) >>],
       [decl |-> "ruleset", name |-> "P",
        fields |-> << Field("a", tP, TRUE), Field("q", TRef("Q"), FALSE) >>],
       [decl |-> "schema",
        fields |-> << Field("a", t1, r1), Field("p", TRef("P"), r2) >>] >>

Scalars ==
    {ok, x, PyStr(<<"O", "K">>), PyStr(<<"1", "2", "3">>), PyStr(<<"1", "2", "a">>),
     PyInt(1), PyInt(2), PyBool(TRUE), PyFloat(1)}

\* lists such as [1, 1, "x"], and lists of lists such as [[1, "x"], 1]
Lists ==
    {PyList(s) : s \in SeqUpTo({PyInt(1), x}, MaxLen)}
      \cup {PyList(s) : s \in SeqUpTo({PyList(<<PyInt(1), x>>), PyInt(1)}, MaxLen)}

\* mappings, nested mappings and documents shaped like P and Q
Dicts ==
    {PyDict(<<>>),
     PyDict(<<KV("a", x), KV("b", PyInt(2))>>),
     PyDict(<<KV("a", x)>>),
     PyDict(<<KV("a", PyInt(1))>>),
     PyDict(<<KV("k", PyDict(<<KV("a", x), KV("b", PyInt(2))>>)), KV("j", x)>>),
     PyDict(<<KV("a", x), KV("q", PyDict(<<KV("a", PyInt(1))>>))>>),
     PyDict(<<KV("a", PyInt(1)), KV("q", PyDict(<<KV("a", x)>>))>>),
     PyDict(<<KV("a", x), KV("q", x)>>),
     PyDict(<<KV("q", PyDict(<<>>))>>)}

\* what the key a of the document holds (None: the key is absent)
AValues == {None} \cup Scalars \cup Lists \cup Dicts

\* what the key p of the document holds
PValues ==
    {None, x, PyList(<<PyInt(1)>>),
     PyDict(<<>>),
     PyDict(<<KV("a", x)>>),
     PyDict(<<KV("a", PyInt(1)), KV("q", PyDict(<<KV("a", x)>>))>>),
     PyDict(<<KV("a", x), KV("q", PyInt(1))>>)}

\* the document {a: va, p: vp}; yaml leaves an absent key out
Document(va, vp) ==
    PyDict((IF va = None THEN <<>> ELSE <<KV("a", va)>>)
             \o (IF vp = None THEN <<>> ELSE <<KV("p", vp)>>))

\* the documents, and the arguments that are no document at all
Documents ==
    {Document(va, vp) : va \in AValues, vp \in PValues}
      \cup {None, PyList(<<PyInt(1)>>)}

----------------------------------------------------------------------------
(* The state machine *)

Init ==
    /\ schema_content = <<>>
    /\ seen_constructs = <<>>
    /\ instructions = None
    /\ yaml_data = None
    /\ pc = "init"
    /\ w_violations = None
    /\ w_raised = "none"
    /\ w_log = <<>>
    /\ v_violations = <<>>
    /\ v_log = <<>>
    /\ compiled = <<>>
    /\ loaded = None
    /\ second = None
    /\ status = None
    /\ fetched = None
    /\ loader = None

\* parse_schema on one of the schema sources
Transform ==
    /\ pc = "init"
    /\ \E t1 \in TypeExprs, r1 \in BOOLEAN, r2 \in BOOLEAN, tP \in {TStr, TInt} :
          LET r == parse_schema(SchemaSource(t1, r1, r2, tP), seen_constructs)
          IN  /\ schema_content' = SchemaSource(t1, r1, r2, tP)
              /\ seen_constructs' = r.seen
              /\ instructions' = r.ret
              /\ pc' = IF r.raised = "none" THEN "parsed" ELSE "parse_error"
    /\ UNCHANGED <<yaml_data, w_violations, w_raised, w_log, v_violations, v_log>>
    /\ UNCHANGED <<compiled, loaded, second, status>>
    /\ UNCHANGED <<fetched, loader>>

\* YamlerWrangler(instructions).wrangle(yaml_data)
Wrangle ==
    /\ pc = "parsed"
    /\ \E data \in Documents :
          LET r == wrangle(data, instructions)
          IN  /\ yaml_data' = data
              /\ w_violations' = IF r.raised = "none" THEN PyDict(r.violations) ELSE None
              /\ w_raised' = r.raised
              /\ w_log' = r.log
    /\ pc' = "wrangled"
    /\ UNCHANGED <<schema_content, seen_constructs, instructions,
                   v_violations, v_log>>
    /\ UNCHANGED <<compiled, loaded, second, status>>
    /\ UNCHANGED <<fetched, loader>>

\* validate(yaml_data, instructions) through the validator chain
Validate ==
    /\ pc = "parsed"
    /\ \E data \in Documents :
          /\ TypeOf(data) = "dict"
          /\ LET log == validate(data, instructions)
             IN  /\ yaml_data' = data
                 /\ v_violations' = violations_of(log)
                 /\ v_log' = log
    /\ pc' = "validated"
    /\ UNCHANGED <<schema_content, seen_constructs, instructions,
                   w_violations, w_raised, w_log>>
    /\ UNCHANGED <<compiled, loaded, second, status>>
    /\ UNCHANGED <<fetched, loader>>

Validators ==
    {"Optional", "Required", "AnyType", "Regex", "BuildInType", "List", "Map",
     "Ruleset", "EnumType"}

\* validator.validate(key, data, parent, rtype, is_required) on one validator
\* of the wired chain
validate_at(validator, key, data, parent, rtype, is_required, schema) ==
    CASE validator = "Optional" ->
            OptionalValidator(key, data, parent, rtype, is_required, schema)
      [] validator = "Required" ->
            RequiredValidator(key, data, parent, rtype, is_required, schema)
      [] validator = "AnyType" ->
            AnyTypeValidator(key, data, parent, rtype, is_required, schema)
      [] validator = "Regex" ->
            RegexValidator(key, data, parent, rtype, is_required, schema)
      [] validator = "BuildInType" ->
            BuildInTypeValidator(key, data, parent, rtype, is_required, schema)
      [] validator = "List" ->
            ListValidator(key, data, parent, rtype, is_required, schema)
      [] validator = "Map" ->
            MapValidator(key, data, parent, rtype, is_required, schema)
      [] validator = "Ruleset" ->
            RulesetValidator(key, data, parent, rtype, is_required, schema)
      [] validator = "EnumType" ->
            EnumTypeValidator(key, data, parent, rtype, is_required, schema)

\* one validator of the chain called directly, as the unit tests call it, with
\* the first rule of the schema and a value for it
Call ==
    /\ pc = "parsed"
    /\ \E validator \in Validators, data \in AValues :
          LET rule == instructions.main.rules[1]
              log == validate_at(validator, rule.name, data, "-", rule.rtype,
                                 rule.is_required, instructions)
          IN  /\ yaml_data' = data
              /\ v_violations' = violations_of(log)
              /\ v_log' = log
    /\ pc' = "called"
    /\ UNCHANGED <<schema_content, seen_constructs, instructions,
                   w_violations, w_raised, w_log>>
    /\ UNCHANGED <<compiled, loaded, second, status>>
    /\ UNCHANGED <<fetched, loader>>

\* the same wrangler object asked again about the same document
WrangleAgain ==
    /\ pc = "wrangled"
    /\ LET r == wrangle(yaml_data, instructions)
       IN  second' = [run |-> "wrangle",
                      violations |-> IF r.raised = "none"
                                     THEN PyDict(r.violations) ELSE None,
                      raised |-> r.raised,
                      log |-> r.log]
    /\ pc' = "wrangled_again"
    /\ UNCHANGED <<schema_content, seen_constructs, instructions, yaml_data,
                   w_violations, w_raised, w_log, v_violations, v_log>>
    /\ UNCHANGED <<compiled, loaded, status>>
    /\ UNCHANGED <<fetched, loader>>

\* validate(yaml_data, instructions) a second time, same document and schema
ValidateAgain ==
    /\ pc = "validated"
    /\ LET log == validate(yaml_data, instructions)
       IN  second' = [run |-> "validate",
                      violations |-> violations_of(log),
                      raised |-> "none",
                      log |-> log]
    /\ pc' = "validated_again"
    /\ UNCHANGED <<schema_content, seen_constructs, instructions, yaml_data,
                   w_violations, w_raised, w_log, v_violations, v_log>>
    /\ UNCHANGED <<compiled, loaded, status>>
    /\ UNCHANGED <<fetched, loader>>

Next ==
    Transform \/ Wrangle \/ Validate \/ Call \/ WrangleAgain \/ ValidateAgain

Spec == Init /\ [][Next]_vars

----------------------------------------------------------------------------
(* Several schema sources compiled in one process: parse_schema called     *)
(* again and again, each call with a new SchemaTransformer.                *)

RulesetDecl(name, fields) == [decl |-> "ruleset", name |-> name, fields |-> fields]
EnumDecl(name, items) == [decl |-> "enum", name |-> name, items |-> items]
SchemaDecl(fields) == [decl |-> "schema", fields |-> fields]
Unexpected(like, line, column) ==
    [decl |-> "unexpected", like |-> like, line |-> line, column |-> column]

\* ruleset A { b <t> required }
DeclA(t) == RulesetDecl("A", <<Field("b", t, TRUE)>>)
\* ruleset B { c int }
DeclB == RulesetDecl("B", <<Field("c", TInt, FALSE)>>)
\* enum E { OK = "ok" }
DeclE == EnumDecl("E", << <<PyStr(<<"O", "K">>), ok>> >>)
\* schema { r <t> }
Entry(t) == SchemaDecl(<<Field("r", t, FALSE)>>)

RefTypes == {TInt, TRef("A"), TRef("B"), TList(TRef("B"))}

CompileSources ==
    \* B declared after A, before A, not at all
    {<<DeclA(t), DeclB, Entry(TRef("A"))>> : t \in RefTypes}
      \cup {<<DeclB, DeclA(t), Entry(TRef("A"))>> : t \in RefTypes}
      \cup {<<DeclA(t), Entry(TInt)>> : t \in RefTypes}
    \* an enum and the entry point; no entry point; a name declared twice
      \cup {<<DeclE, Entry(TRef("E"))>>, <<DeclE, DeclB>>, <<Entry(TRef("E"))>>,
            <<DeclB, RulesetDecl("B", <<Field("d", TStr, TRUE)>>), Entry(TRef("B"))>>}
    \* text the grammar rejects
      \cup {<<DeclB, Unexpected(like, 2, 9), Entry(TRef("B"))>> :
               like \in {"ruleset foo", "enum FOO", "schema {}", ""}}
      \cup {<<Unexpected("", 1, 1)>>}
    \* a field name declared twice, in a ruleset and in the schema block
      \cup {<<RulesetDecl("B", <<Field("c", TInt, TRUE), Field("c", TStr, FALSE)>>),
              Entry(TRef("B"))>>,
            <<SchemaDecl(<<Field("r", TInt, TRUE), Field("r", TStr, FALSE)>>)>>}

\* parse_schema(schema_content)
Compile ==
    /\ pc \in {"init", "compiled", "compile_error"}
    /\ Len(compiled) < MaxCompiles
    /\ \E content \in CompileSources :
          LET r == parse_schema(content, seen_constructs)
          IN  /\ schema_content' = content
              /\ seen_constructs' = r.seen
              /\ instructions' = r.ret
              /\ pc' = IF r.raised = "none" THEN "compiled" ELSE "compile_error"
              /\ compiled' = Append(compiled,
                    [content |-> content, seen |-> seen_constructs,
                     raised |-> r.raised, ret |-> r.ret,
                     context |-> r.context, args |-> r.args])
    /\ UNCHANGED <<yaml_data, w_violations, w_raised, w_log, v_violations, v_log,
                   loaded, second, status>>
    /\ UNCHANGED <<fetched, loader>>

NextCompile == Compile

SpecCompile == Init /\ [][NextCompile]_vars

----------------------------------------------------------------------------
(* The import resolver: src/yamlator/parser/loaders.py.                    *)
(* yamlator.types and yamlator.parser.core are not part of the sources at  *)
(* hand; the objects they hand to the loader are modelled from the design: *)
(* a partially loaded schema holds the root, the rulesets and enums of     *)
(* the file, its import statements (path -> requested names, in order) and *)
(* the list of its RuleType objects of kind UNKNOWN.  Such an object is    *)
(* one Python object reachable both from that list and from the rule that  *)
(* holds it: the field id stands for its identity, and an assignment to    *)
(* its schema_type shows wherever the object is reachable.                 *)
(* The file system is a function from paths to the partially loaded schema *)
(* that load_schema and parse_schema give for the file.                    *)
(* Every path is taken to name its file: what fetch_schema_path and       *)
(* os.path.join make of a path is modelled on its own further down.       *)

UnknownType(lookup, id) ==
    [schema_type |-> "UNKNOWN", lookup |-> lookup, sub_type |-> None,
     regex |-> None, id |-> id]

PartiallyLoadedYamlatorSchema(root, rulesets, enums, imports, unknowns) ==
    [root |-> root, rulesets |-> rulesets, enums |-> enums, imports |-> imports,
     unknowns_rule_types |-> unknowns]

YamlatorSchema(root, rulesets, enums) ==
    [root |-> root, rulesets |-> rulesets, enums |-> enums]

RECURSIVE assign_in_type(_, _, _)
\* curr.schema_type = kind, seen from a RuleType that may hold curr
assign_in_type(rtype, id, kind) ==
    IF rtype = None THEN None
    ELSE IF rtype.schema_type = "UNKNOWN" /\ rtype.id = id
    THEN [rtype EXCEPT !.schema_type = kind]
    ELSE [rtype EXCEPT !.sub_type = assign_in_type(@, id, kind)]

\* curr.schema_type = kind, seen from a ruleset whose rules may hold curr
assign_in_ruleset(rs, id, kind) ==
    IF rs = None THEN None
    ELSE [rs EXCEPT !.rules =
            [i \in 1..Len(@) |->
               [@[i] EXCEPT !.rtype = assign_in_type(@, id, kind)]]]

\* curr.schema_type = kind, seen from the root and the rulesets
assign(schema, id, kind) ==
    [schema EXCEPT
       !.root = assign_in_ruleset(@, id, kind),
       !.rulesets = [i \in 1..Len(@) |->
                       KV(@[i].k, assign_in_ruleset(@[i].v, id, kind))]]

RECURSIVE resolve_unknown_types_rulesets_first(_, _)
\* the two lookups of the loop in the other order: rulesets before enums
resolve_unknown_types_rulesets_first(unknown_types, schema) ==
    IF unknown_types = <<>>
    THEN [raised |-> "none", name |-> "", schema |-> schema]
    ELSE LET curr == unknown_types[Len(unknown_types)]
             rest == SubSeq(unknown_types, 1, Len(unknown_types) - 1)
         IN  IF curr.lookup \in Keys(schema.rulesets)
             THEN resolve_unknown_types_rulesets_first(rest,
                     assign(schema, curr.id, "RULESET"))
             ELSE IF curr.lookup \in Keys(schema.enums)
             THEN resolve_unknown_types_rulesets_first(rest,
                     assign(schema, curr.id, "ENUM"))
             ELSE [raised |-> "ConstructNotFoundError", name |-> curr.lookup,
                   schema |-> None]

RECURSIVE resolve_unknown_types(_, _)
\* resolve_unknown_types(unknown_types, rulesets, enums), with the root that
\* shares its RuleType objects with unknown_types
resolve_unknown_types(unknown_types, schema) ==
    IF unknown_types = <<>>
    THEN [raised |-> "none", name |-> "", schema |-> schema]
    ELSE LET curr == unknown_types[Len(unknown_types)]
             rest == SubSeq(unknown_types, 1, Len(unknown_types) - 1)
         IN  IF curr.lookup \in Keys(schema.enums)
             THEN resolve_unknown_types(rest, assign(schema, curr.id, "ENUM"))
             ELSE IF curr.lookup \in Keys(schema.rulesets)
             THEN resolve_unknown_types(rest, assign(schema, curr.id, "RULESET"))
             ELSE [raised |-> "ConstructNotFoundError", name |-> curr.lookup,
                   schema |-> None]

\* the loop copying every construct of the imported schema, requested or not
import_resources_all(resource_type, imported, tables) ==
    [rulesets |-> handle_all([i \in 1..Len(imported.rulesets) |-> imported.rulesets[i].v],
                             [rules |-> tables.rulesets, enums |-> <<>>]).rules,
     enums |-> handle_all([i \in 1..Len(imported.enums) |-> imported.enums[i].v],
                          [rules |-> <<>>, enums |-> tables.enums]).enums]

RECURSIVE import_resources_keeping(_, _, _)
\* the loop writing a name only when the table does not hold it yet
import_resources_keeping(resource_type, imported, tables) ==
    IF resource_type = <<>> THEN tables
    ELSE LET resource == Head(resource_type)
         IN  IF resource \in Keys(imported.rulesets)
             THEN import_resources_keeping(Tail(resource_type), imported,
                    IF resource \in Keys(tables.rulesets) THEN tables
                    ELSE [tables EXCEPT !.rulesets =
                            DictSet(@, DictGet(imported.rulesets, resource).name,
                                    DictGet(imported.rulesets, resource))])
             ELSE IF resource \in Keys(imported.enums)
             THEN import_resources_keeping(Tail(resource_type), imported,
                    IF resource \in Keys(tables.enums) THEN tables
                    ELSE [tables EXCEPT !.enums =
                            DictSet(@, DictGet(imported.enums, resource).name,
                                    DictGet(imported.enums, resource))])
             ELSE import_resources_keeping(Tail(resource_type), imported, tables)

RECURSIVE import_resources(_, _, _)
\* for resource in resource_type: the requested names copied one by one
import_resources(resource_type, imported, tables) ==
    IF resource_type = <<>> THEN tables
    ELSE LET resource == Head(resource_type)
         IN  IF resource \in Keys(imported.rulesets)
             THEN import_resources(Tail(resource_type), imported,
                    [tables EXCEPT !.rulesets =
                       DictSet(@, DictGet(imported.rulesets, resource).name,
                               DictGet(imported.rulesets, resource))])
             ELSE IF resource \in Keys(imported.enums)
             THEN import_resources(Tail(resource_type), imported,
                    [tables EXCEPT !.enums =
                       DictSet(@, DictGet(imported.enums, resource).name,
                               DictGet(imported.enums, resource))])
             ELSE import_resources(Tail(resource_type), imported, tables)

RECURSIVE parse_yamlator_schema(_, _)
RECURSIVE load_schema_imports(_, _)
RECURSIVE import_statements(_, _, _)

\* for path, resource_type in import_statements.items()
import_statements(statements, tables, fs) ==
    IF statements = <<>>
    THEN [raised |-> "none", name |-> "", tables |-> tables]
    ELSE LET path   == Head(statements).k
             schema == parse_yamlator_schema(path, fs)
         IN  IF schema.raised # "none"
             THEN [raised |-> schema.raised, name |-> schema.name, tables |-> tables]
             ELSE import_statements(Tail(statements),
                    import_resources(Head(statements).v, schema.schema, tables), fs)

load_schema_imports(loaded_schema, fs) ==
    LET merged == import_statements(loaded_schema.imports,
                     [rulesets |-> loaded_schema.rulesets,
                      enums |-> loaded_schema.enums], fs)
    IN  IF merged.raised # "none"
        THEN [raised |-> merged.raised, name |-> merged.name, schema |-> None,
              merged |-> None]
        ELSE LET r == resolve_unknown_types(loaded_schema.unknowns_rule_types,
                        YamlatorSchema(loaded_schema.root, merged.tables.rulesets,
                                       merged.tables.enums))
             IN  [raised |-> r.raised, name |-> r.name, schema |-> r.schema,
                  merged |-> merged.tables]

\* parse_yamlator_schema(schema_path): load_schema and parse_schema give the
\* partially loaded schema of the file, load_schema_imports resolves it
parse_yamlator_schema(schema_path, fs) ==
    load_schema_imports(fs[schema_path], fs)

----------------------------------------------------------------------------
(* Schema files that import from one another: root.ys imports from lib.ys, *)
(* lib.ys may import from base.ys.                                         *)

\* the dict name -> construct of a sequence of constructs
Table(constructs) ==
    [i \in 1..Len(constructs) |-> KV(constructs[i].name, constructs[i])]

\* ruleset Q { a int required }
RulesetQ == YamlatorRuleset("Q", <<Rule("a", int_type, TRUE)>>)
\* ruleset T { a int required }
RulesetT == YamlatorRuleset("T", <<Rule("a", int_type, TRUE)>>)
\* ruleset P { q Q }, with Q a ruleset of the same file
RulesetPofQ ==
    YamlatorRuleset("P", <<Rule("q", RuleType("RULESET", "Q", None, None), FALSE)>>)
\* ruleset P { a int required }
RulesetPofInt == YamlatorRuleset("P", <<Rule("a", int_type, TRUE)>>)
\* ruleset P { t T }, with T imported
RulesetPofT == YamlatorRuleset("P", <<Rule("t", UnknownType("T", "lib.1"), FALSE)>>)
\* enum E { OK = "ok" }
EnumE == YamlatorEnum("E", enum_items(<<EnumItem(PyStr(<<"O", "K">>), ok)>>, <<>>))

\* lib.ys: P refers to Q, both declared, and E
LibPQE ==
    PartiallyLoadedYamlatorSchema(None, Table(<<RulesetPofQ, RulesetQ>>),
                                  Table(<<EnumE>>), <<>>, <<>>)
\* lib.ys: P on its own, and E
LibPE ==
    PartiallyLoadedYamlatorSchema(None, Table(<<RulesetPofInt>>),
                                  Table(<<EnumE>>), <<>>, <<>>)
\* lib.ys: import T from "base.ys"; P refers to T
LibImporting ==
    PartiallyLoadedYamlatorSchema(None, Table(<<RulesetPofT>>), <<>>,
                                  <<KV("base.ys", <<"T">>)>>,
                                  <<UnknownType("T", "lib.1")>>)
\* base.ys: T, or nothing
Base(withT) ==
    PartiallyLoadedYamlatorSchema(None,
        IF withT THEN Table(<<RulesetT>>) ELSE <<>>, <<>>, <<>>, <<>>)

\* root.ys: import <names> from "lib.ys"; ruleset <local> { a str required };
\* schema { r <u> } or schema { r list(<u>) }, u known from no declaration
\* above it
Root(names, u, nested, local) ==
    LET unknown == UnknownType(u, "root.1")
    IN  PartiallyLoadedYamlatorSchema(
          YamlatorRuleset("main",
             <<Rule("r", IF nested THEN list_type(<<unknown>>) ELSE unknown, FALSE)>>),
          Table(<<YamlatorRuleset(local, <<Rule("a", str_type, TRUE)>>)>>),
          <<>>,
          <<KV("lib.ys", names)>>,
          <<unknown>>)

RequestedNames ==
    {<<>>, <<"P">>, <<"Q">>, <<"E">>, <<"X">>, <<"P", "Q">>, <<"P", "E">>,
     <<"P", "X">>, <<"X", "P">>, <<"Q", "E">>, <<"E", "X">>, <<"P", "Q", "E">>,
     <<"P", "Q", "E", "X">>}

Libraries ==
    {[lib |-> LibPQE, base |-> Base(FALSE)], [lib |-> LibPE, base |-> Base(FALSE)],
     [lib |-> LibImporting, base |-> Base(TRUE)],
     [lib |-> LibImporting, base |-> Base(FALSE)]}

\* parse_yamlator_schema("root.ys")
LoadSchema ==
    /\ pc = "init"
    /\ \E names \in RequestedNames, u \in {"P", "Q", "E", "X", "L"},
          nested \in BOOLEAN, local \in {"L", "P", "E"}, files \in Libraries :
          LET fs == [path \in {"root.ys", "lib.ys", "base.ys"} |->
                       IF path = "root.ys" THEN Root(names, u, nested, local)
                       ELSE IF path = "lib.ys" THEN files.lib ELSE files.base]
              r  == parse_yamlator_schema("root.ys", fs)
          IN  /\ loaded' = [files |-> fs, raised |-> r.raised, name |-> r.name,
                            schema |-> r.schema, merged |-> r.merged]
              /\ pc' = IF r.raised = "none" THEN "loaded" ELSE "load_error"
    /\ UNCHANGED <<schema_content, seen_constructs, instructions, yaml_data,
                   w_violations, w_raised, w_log, v_violations, v_log,
                   compiled, second, status>>
    /\ UNCHANGED <<fetched, loader>>

\* a construct named P as each file declares it: a ruleset with one rule
\* named after the file, or an enum with one item named after the file
RulesetPIn(file) == YamlatorRuleset("P", <<Rule(file, str_type, TRUE)>>)
EnumPIn(file) ==
    YamlatorEnum("P", enum_items(<<EnumItem(PyStr(<<file>>), ok)>>, <<>>))

\* a file that declares P as a ruleset, as an enum, or not at all
Declaring(file, kind) ==
    PartiallyLoadedYamlatorSchema(None,
        IF kind = "ruleset" THEN Table(<<RulesetPIn(file)>>) ELSE <<>>,
        IF kind = "enum" THEN Table(<<EnumPIn(file)>>) ELSE <<>>,
        <<>>, <<>>)

\* root.ys: import <n1> from "lib.ys"; import <n2> from "other.ys";
\* schema { r P }; and P declared as <kind> below the schema block
RootOfTwo(n1, n2, kind) ==
    LET own == Declaring("root", kind)
    IN  PartiallyLoadedYamlatorSchema(
          YamlatorRuleset("main", <<Rule("r", UnknownType("P", "root.1"), FALSE)>>),
          own.rulesets, own.enums,
          <<KV("lib.ys", n1), KV("other.ys", n2)>>,
          <<UnknownType("P", "root.1")>>)

Kinds == {"ruleset", "enum", "none"}

\* parse_yamlator_schema("root.ys") for a root.ys with two import statements
LoadTwoImports ==
    /\ pc = "init"
    /\ \E n1 \in {<<>>, <<"P">>, <<"P", "X">>}, n2 \in {<<>>, <<"P">>},
          kind \in Kinds, kind1 \in Kinds, kind2 \in Kinds :
          LET fs == [path \in {"root.ys", "lib.ys", "other.ys"} |->
                       IF path = "root.ys" THEN RootOfTwo(n1, n2, kind)
                       ELSE IF path = "lib.ys" THEN Declaring("lib", kind1)
                       ELSE Declaring("other", kind2)]
              r  == parse_yamlator_schema("root.ys", fs)
          IN  /\ loaded' = [files |-> fs, raised |-> r.raised, name |-> r.name,
                            schema |-> r.schema, merged |-> r.merged]
              /\ pc' = IF r.raised = "none" THEN "imported" ELSE "import_error"
    /\ UNCHANGED <<schema_content, seen_constructs, instructions, yaml_data,
                   w_violations, w_raised, w_log, v_violations, v_log,
                   compiled, second, status>>
    /\ UNCHANGED <<fetched, loader>>

NextImports == LoadSchema \/ LoadTwoImports

SpecImports == Init /\ [][NextImports]_vars

----------------------------------------------------------------------------
(* The command line: src/src/cmd.py and src/yamler/cmd.py.                 *)
(* The loaders of the utils module are not part of the sources at hand;    *)
(* they are modelled from the documentation of validate_yaml_data_from_file *)
(* (ValueError for a None or empty path, FileNotFoundError for a path that  *)
(* is not on the file system, InvalidSchemaFilenameError for a schema path  *)
(* without the schema extension).  A path argument is the record of what    *)
(* the file system holds for it.                                            *)

NoPath == [path |-> "None"]
EmptyPath == [path |-> "empty"]
MissingPath == [path |-> "missing"]
BadFilename == [path |-> "bad_filename"]
File(content) == [path |-> "file", content |-> content]

SUCCESS == 0
ERR == -1
\* the status of an interpreter that ends on an uncaught exception
UNCAUGHT == 1

\* the exception classes and their base classes
Bases(exc) ==
    CASE exc \in {"MalformedRulesetNameError", "MalformedEnumNameError",
                  "MissingRulesError"} ->
            {exc, "SchemaSyntaxError", "SyntaxError"}
      [] exc = "SchemaSyntaxError" -> {exc, "SyntaxError"}
      [] exc \in {"SchemaParseError", "ConstructNotFoundError",
                  "InvalidSchemaFilenameError"} -> {exc, "RuntimeError"}
      [] exc = "FileNotFoundError" -> {exc, "OSError"}
      [] OTHER -> {exc}

\* the except clauses of main
Handled ==
    {"SchemaParseError", "SchemaSyntaxError", "FileNotFoundError",
     "InvalidSchemaFilenameError", "ValueError"}

\* utils.load_yaml_file
load_yaml_file(arg) ==
    CASE arg.path \in {"None", "empty"} -> [raised |-> "ValueError", ret |-> None]
      [] arg.path = "file" -> [raised |-> "none", ret |-> arg.content]
      [] OTHER -> [raised |-> "FileNotFoundError", ret |-> None]

\* utils.load_schema
load_schema(arg) ==
    CASE arg.path \in {"None", "empty"} -> [raised |-> "ValueError", ret |-> None]
      [] arg.path = "bad_filename" ->
            [raised |-> "InvalidSchemaFilenameError", ret |-> None]
      [] arg.path = "file" -> [raised |-> "none", ret |-> arg.content]
      [] OTHER -> [raised |-> "FileNotFoundError", ret |-> None]

\* validate_yaml_data_from_file: load the document, load the schema text,
\* compile it, validate; the first exception ends it
validate_yaml_data_from_file(yaml_filepath, schema_filepath, seen) ==
    LET d == load_yaml_file(yaml_filepath)
        t == load_schema(schema_filepath)
    IN  IF d.raised # "none"
        THEN [raised |-> d.raised, violations |-> <<>>, seen |-> seen]
        ELSE IF t.raised # "none"
        THEN [raised |-> t.raised, violations |-> <<>>, seen |-> seen]
        ELSE LET r == parse_schema(t.ret, seen)
             IN  IF r.raised # "none"
                 THEN [raised |-> r.raised, violations |-> <<>>, seen |-> r.seen]
                 ELSE [raised |-> "none",
                       violations |-> violations_of(validate(d.ret, r.ret)),
                       seen |-> r.seen]

\* TableOutput.display, ConsoleOutput.display
TableOutput(violations) == IF Len(violations) # 0 THEN ERR ELSE SUCCESS

\* JSONOutput.display
JSONOutput(violations) == IF Len(violations) = 0 THEN SUCCESS ELSE ERR

\* display_violations(violations, method)
display_violations(violations, method) ==
    IF method = "JSON" THEN JSONOutput(violations) ELSE TableOutput(violations)

\* the documents and schema texts on the file system
MainDocuments == {Document(va, vp) : va \in {None, x, PyInt(1)}, vp \in PValues}

MainSchemas ==
    {SchemaSource(t1, r1, FALSE, TStr) : t1 \in TypeExprs, r1 \in BOOLEAN}
      \cup {<<DeclB, Unexpected(like, 2, 9), Entry(TRef("B"))>> :
               like \in {"ruleset foo", "enum FOO", "schema {}", ""}}

FileArgs == {NoPath, EmptyPath, MissingPath} \cup {File(d) : d \in MainDocuments}

SchemaArgs ==
    {NoPath, EmptyPath, MissingPath, BadFilename}
      \cup {File(t) : t \in MainSchemas}

\* what a run of the command line is given and how it ended
Exit(program, file, schema, output, r, returned, escaped) ==
    [program |-> program, file |-> file, schema |-> schema, output |-> output,
     raised |-> r.raised, violations |-> r.violations,
     returned |-> returned, escaped |-> escaped]

\* main of src/src/cmd.py: yamler FILE -s SCHEMA -o OUTPUT
main ==
    /\ pc = "init"
    /\ \E file \in FileArgs, schema \in SchemaArgs, output \in {"table", "json"} :
          LET r == validate_yaml_data_from_file(file, schema, seen_constructs)
              method == IF output = "json" THEN "JSON" ELSE "TABLE"
          IN  /\ seen_constructs' = r.seen
              /\ status' =
                   IF r.raised = "none"
                   THEN Exit("main", file, schema, output, r,
                             display_violations(r.violations, method), "none")
                   ELSE IF Bases(r.raised) \cap Handled # {}
                   THEN Exit("main", file, schema, output, r, ERR, "none")
                   ELSE Exit("main", file, schema, output, r, UNCAUGHT, r.raised)
    /\ pc' = "exited"
    /\ UNCHANGED <<schema_content, instructions, yaml_data, w_violations,
                   w_raised, w_log, v_violations, v_log, compiled, loaded, second>>
    /\ UNCHANGED <<fetched, loader>>

\* main of src/yamler/cmd.py: yamler FILE -schema SCHEMA; no except clause
yamler_main ==
    /\ pc = "init"
    /\ \E file \in FileArgs, schema \in SchemaArgs :
          LET r == validate_yaml_data_from_file(file, schema, seen_constructs)
          IN  /\ seen_constructs' = r.seen
              /\ status' =
                   IF r.raised = "none"
                   THEN Exit("yamler_main", file, schema, "console", r,
                             TableOutput(r.violations), "none")
                   ELSE Exit("yamler_main", file, schema, "console", r,
                             UNCAUGHT, r.raised)
    /\ pc' = "exited"
    /\ UNCHANGED <<schema_content, instructions, yaml_data, w_violations,
                   w_raised, w_log, v_violations, v_log, compiled, loaded, second>>
    /\ UNCHANGED <<fetched, loader>>

NextMain == main \/ yamler_main

SpecMain == Init /\ [][NextMain]_vars

----------------------------------------------------------------------------
(* fetch_schema_path: src/yamlator/parser/loaders.py 52-69.                *)
(* A path is a Python str, its characters in a sequence.  os.path.join is  *)
(* posixpath.join or ntpath.join according to the platform; drive letters  *)
(* are not among the characters of the paths.                              *)

Backslash == "\\"
Slash == "/"

\* the positions of sep in s
Positions(s, sep) == {i \in 1..Len(s) : s[i] = sep}

RECURSIVE split(_, _)
\* s.split(sep) for a separator of one character
split(s, sep) ==
    IF Positions(s, sep) = {} THEN <<s>>
    ELSE LET i == CHOOSE k \in Positions(s, sep) : \A j \in Positions(s, sep) : k <= j
         IN  <<SubSeq(s, 1, i - 1)>> \o split(SubSeq(s, i + 1, Len(s)), sep)

\* the separator os.path.join puts in, and the characters it reads as one
sep_of(platform) == IF platform = "nt" THEN Backslash ELSE Slash
seps_of(platform) == IF platform = "nt" THEN {Backslash, Slash} ELSE {Slash}

RECURSIVE join(_, _, _)
\* os.path.join(path, *paths): a component that starts with a separator
\* starts the result again, another one is added after a separator
join(platform, path, paths) ==
    IF paths = <<>> THEN path
    ELSE LET b == Head(paths)
         IN  IF b # <<>> /\ b[1] \in seps_of(platform)
             THEN join(platform, b, Tail(paths))
             ELSE IF path = <<>> \/ path[Len(path)] \in seps_of(platform)
             THEN join(platform, path \o b, Tail(paths))
             ELSE join(platform, path \o <<sep_of(platform)>> \o b, Tail(paths))

\* fetch_schema_path(schema_path)
fetch_schema_path(platform, schema_path) ==
    IF schema_path = None \/ TypeOf(schema_path) # "str"
    THEN [raised |-> "ValueError", ret |-> None]
    ELSE LET pieces  == split(schema_path.v, Backslash)
             context == SubSeq(pieces, 1, Len(pieces) - 1)
         IN  IF context = <<>>
             THEN \* os.path.join(): the required first argument is missing
                  [raised |-> "TypeError", ret |-> None]
             ELSE [raised |-> "none",
                   ret |-> PyStr(join(platform, Head(context), Tail(context)))]

\* the characters of a path: a letter and the two separators
PathChars == {"d", Backslash, Slash}

RECURSIVE Strings(_)
\* the strings of at most n characters
Strings(n) ==
    IF n = 0 THEN {<<>>}
    ELSE Strings(n - 1)
           \cup {Append(str, c) : str \in Strings(n - 1), c \in PathChars}

SchemaPaths == {PyStr(str) : str \in Strings(MaxPath)} \cup {None, PyInt(1)}

\* fetch_schema_path(schema_path) on one of the two platforms
FetchSchemaPath ==
    /\ pc = "init"
    /\ \E platform \in {"posix", "nt"}, schema_path \in SchemaPaths :
          LET r == fetch_schema_path(platform, schema_path)
          IN  fetched' = [platform |-> platform, schema_path |-> schema_path,
                          raised |-> r.raised, ret |-> r.ret]
    /\ pc' = "fetched"
    /\ UNCHANGED <<schema_content, seen_constructs, instructions, yaml_data,
                   w_violations, w_raised, w_log, v_violations, v_log,
                   compiled, loaded, second, status, loader>>

NextPaths == FetchSchemaPath

SpecPaths == Init /\ [][NextPaths]_vars

----------------------------------------------------------------------------
(* parse_yamlator_schema call by call: src/yamlator/parser/loaders.py.     *)
(* parse_yamlator_schema and load_schema_imports call one another, one     *)
(* pair of calls per import statement.  The calls in progress are a stack  *)
(* of frames [path, file, context, next]: the path the call was given, the *)
(* file found there, the directory fetch_schema_path gave for it and the   *)
(* position of the import statement the loop is at.  The schema files a, b *)
(* and c are in the directory d; every path the loader asks for is on the  *)
(* file system.  The interpreter raises RecursionError when the calls nest *)
(* deeper than its limit.                                                  *)

\* the path given on the command line: d\a
RootPath == <<"d", Backslash, "a">>

\* load_schema(schema_path): the file at the path, named by the last piece
\* of the path
file_at(path) == path[Len(path)]

\* what a call of parse_yamlator_schema(path) does up to its call of
\* load_schema_imports, but with a guard: a file that was loaded before is
\* not loaded again
enter_once(l, path) ==
    IF Len(l.stack) >= MaxDepth
    THEN [l EXCEPT !.outcome = "RecursionError"]
    ELSE IF file_at(path) \in {l.loads[i] : i \in 1..Len(l.loads)}
    THEN l
    ELSE LET context == fetch_schema_path(l.platform, PyStr(path))
             loads   == Append(l.loads, file_at(path))
         IN  IF context.raised # "none"
             THEN [l EXCEPT !.loads = loads, !.outcome = context.raised]
             ELSE [l EXCEPT !.loads = loads,
                            !.stack = Append(@, [path |-> path,
                                                 file |-> file_at(path),
                                                 context |-> context.ret.v,
                                                 next |-> 1])]

\* what a call of parse_yamlator_schema(path) does up to its call of
\* load_schema_imports: load_schema and parse_schema, then
\* fetch_schema_path; an exception leaves every call in progress
enter(l, path) ==
    IF Len(l.stack) >= MaxDepth
    THEN [l EXCEPT !.outcome = "RecursionError"]
    ELSE LET context == fetch_schema_path(l.platform, PyStr(path))
             loads   == Append(l.loads, file_at(path))
         IN  IF context.raised # "none"
             THEN [l EXCEPT !.loads = loads, !.outcome = context.raised]
             ELSE [l EXCEPT !.loads = loads,
                            !.stack = Append(@, [path |-> path,
                                                 file |-> file_at(path),
                                                 context |-> context.ret.v,
                                                 next |-> 1])]

\* the import statements of the files a, b and c: the paths they name
Imports(a, b, c) == [a |-> a, b |-> b, c |-> c]

ImportGraphs ==
    {\* no file imported twice
     Imports(<<>>, <<>>, <<>>),
     Imports(<<<<"b">>>>, <<>>, <<>>),
     Imports(<<<<"b">>, <<"c">>>>, <<>>, <<>>),
     Imports(<<<<"b">>>>, <<<<"c">>>>, <<>>),
     \* c imported by a and by b
     Imports(<<<<"b">>, <<"c">>>>, <<<<"c">>>>, <<>>),
     Imports(<<<<"c">>, <<"b">>>>, <<<<"c">>>>, <<>>),
     \* a file importing itself, two files importing each other, a cycle
     \* behind an import that returns, a cycle that does not pass through a
     Imports(<<<<"a">>>>, <<>>, <<>>),
     Imports(<<<<"b">>>>, <<<<"a">>>>, <<>>),
     Imports(<<<<"b">>, <<"c">>>>, <<>>, <<<<"a">>>>),
     Imports(<<<<"b">>>>, <<<<"c">>>>, <<<<"b">>>>),
     Imports(<<<<"b">>>>, <<<<"c">>>>, <<<<"a">>>>),
     Imports(<<<<"b">>, <<"c">>>>, <<<<"c">>>>, <<<<"c">>>>)}

\* the pc of a loader: calls in progress, returned to the caller, or left
\* by an exception
pc_of(l) ==
    IF l.outcome # "none" THEN "load_failed"
    ELSE IF l.stack = <<>> THEN "returned" ELSE "loading"

\* parse_yamlator_schema(RootPath) is called
StartLoad ==
    /\ pc = "init"
    /\ \E platform \in {"posix", "nt"}, graph \in ImportGraphs :
          LET l == enter([platform |-> platform, graph |-> graph, stack |-> <<>>,
                          loads |-> <<>>, outcome |-> "none"], RootPath)
          IN  /\ loader' = l
              /\ pc' = pc_of(l)
    /\ UNCHANGED <<schema_content, seen_constructs, instructions, yaml_data,
                   w_violations, w_raised, w_log, v_violations, v_log,
                   compiled, loaded, second, status, fetched>>

\* load_schema_imports, one turn of the loop over the import statements:
\* full_path = os.path.join(schema_path, path) and
\* parse_yamlator_schema(full_path)
ImportStep ==
    /\ pc = "loading"
    /\ LET n     == Len(loader.stack)
           frame == loader.stack[n]
       IN  /\ frame.next <= Len(loader.graph[frame.file])
           /\ LET path      == loader.graph[frame.file][frame.next]
                  full_path == join(loader.platform, frame.context, <<path>>)
                  l == enter([loader EXCEPT !.stack[n].next = @ + 1], full_path)
              IN  /\ loader' = l
                  /\ pc' = pc_of(l)
    /\ UNCHANGED <<schema_content, seen_constructs, instructions, yaml_data,
                   w_violations, w_raised, w_log, v_violations, v_log,
                   compiled, loaded, second, status, fetched>>

\* load_schema_imports after the loop: the unknown types are resolved and
\* the schema is returned to the caller
ReturnStep ==
    /\ pc = "loading"
    /\ LET n     == Len(loader.stack)
           frame == loader.stack[n]
       IN  /\ frame.next > Len(loader.graph[frame.file])
           /\ LET l == [loader EXCEPT !.stack = SubSeq(@, 1, n - 1)]
              IN  /\ loader' = l
                  /\ pc' = pc_of(l)
    /\ UNCHANGED <<schema_content, seen_constructs, instructions, yaml_data,
                   w_violations, w_raised, w_log, v_violations, v_log,
                   compiled, loaded, second, status, fetched>>

NextLoader == StartLoad \/ ImportStep \/ ReturnStep

SpecLoader == Init /\ [][NextLoader]_vars

\* the interpreter runs the program on: a call that can take its next step
\* takes it
SpecLoaderFair == SpecLoader /\ WF_vars(NextLoader)

----------------------------------------------------------------------------
(* Reading the logs *)

\* the wrangler's log ends before position i, or goes on with another rule
WEnds(i) == i > Len(w_log) \/ w_log[i].ev = "rule"

\* the chain's log ends before position i, or goes on with another check
VEnds(i) == i > Len(v_log) \/ v_log[i].ev = "Optional"

\* the positions after i of the chain's log that belong to the same pass
\* through the chain: up to the next check, or the end of the log
Pass(i) ==
    {j \in (i + 1)..Len(v_log) : \A k \in (i + 1)..j : v_log[k].ev # "Optional"}

\* position j of the chain's log is validator v entered with the arguments
\* of position i
SameCall(i, j, v) ==
    /\ j <= Len(v_log)
    /\ v_log[j] = [v_log[i] EXCEPT !.ev = v]

\* position j of the chain's log is violation viol appended
IsAppended(j, viol) ==
    /\ j <= Len(v_log)
    /\ v_log[j].ev = "violation"
    /\ v_log[j].violation = viol

\* position j of the chain's log is a violation of category cat for the
\* key and parent of position i
IsViolation(i, j, cat) ==
    /\ j <= Len(v_log)
    /\ v_log[j].ev = "violation"
    /\ v_log[j].violation.cat = cat
    /\ v_log[j].violation.key = v_log[i].key
    /\ v_log[j].violation.parent = v_log[i].parent

----------------------------------------------------------------------------
(* C1 *)

C1_Wrangler ==
    \A i \in 1..Len(w_log) :
        (w_log[i].ev = "rule" /\ w_log[i].is_required /\ w_log[i].data = None)
        => /\ i + 1 <= Len(w_log)
           /\ w_log[i + 1] = WWrite("required", w_log[i].key)
           /\ WEnds(i + 2)
           /\ w_raised = "none" =>
                 DictGet(SubOf(w_violations.v, w_log[i].key), "required")
                    = <<w_log[i].key, " is missing">>

C1_Chain ==
    \A i \in 1..Len(v_log) :
        (v_log[i].is_required /\ v_log[i].data = None)
        => /\ v_log[i].ev = "Optional" => SameCall(i, i + 1, "Required")
           /\ v_log[i].ev = "Required" =>
                 /\ IsAppended(i + 1, RequiredViolation(v_log[i].key, v_log[i].parent))
                 /\ VEnds(i + 2)

\* C1: a required field whose data is None gets exactly one MissingRequired
\* violation and nothing else: no type violation, no recursion, no later
\* validator, whatever the kind of its rule type.  In the wrangler the rule is
\* followed by one write of "required" and then the next rule; in the chain
\* the Required validator appends one violation and the pass ends there.
C1_RequiredMissing == C1_Wrangler /\ C1_Chain

\* a required ruleset-typed field that is absent, reported by the wrangler
C1_Witness ==
    /\ pc = "wrangled"
    /\ w_raised = "none"
    /\ \E i \in 1..Len(w_log) :
          /\ w_log[i].ev = "rule"
          /\ w_log[i].is_required
          /\ w_log[i].data = None
          /\ w_log[i].kind = "RULESET"
    /\ \E i \in 1..Len(w_log) :
          /\ w_log[i].ev = "rule"
          /\ w_log[i].is_required
          /\ w_log[i].data = None
          /\ w_log[i].kind = "ENUM"

----------------------------------------------------------------------------
(* C2 *)

C2_Wrangler ==
    \A i \in 1..Len(w_log) :
        (w_log[i].ev = "rule" /\ ~w_log[i].is_required /\ w_log[i].data = None)
        => WEnds(i + 1)

C2_Chain ==
    \A i \in 1..Len(v_log) :
        v_log[i].ev = "Optional"
        => IF ~v_log[i].is_required /\ v_log[i].data = None
           THEN VEnds(i + 1)
           ELSE /\ SameCall(i, i + 1, "Required")
                /\ Cardinality({j \in Pass(i) : v_log[j].ev = "Required"}) = 1

\* C2: an optional field whose data is None gets no violation and nothing is
\* done for it: the wrangler goes on to the next rule (no write, no recursive
\* call), the Optional validator returns without calling the next validator.
\* In every other case the Optional validator hands the same arguments to
\* the next validator, once.
C2_OptionalMissing == C2_Wrangler /\ C2_Chain

\* an optional ruleset-typed field that is absent, skipped by the wrangler,
\* next to a field that is present
C2_Witness ==
    /\ pc = "wrangled"
    /\ \E i \in 1..Len(w_log) :
          /\ w_log[i].ev = "rule"
          /\ ~w_log[i].is_required
          /\ w_log[i].data = None
          /\ w_log[i].kind = "RULESET"
    /\ \E i \in 1..Len(w_log) :
          /\ w_log[i].ev = "rule"
          /\ ~w_log[i].is_required
          /\ w_log[i].data # None

----------------------------------------------------------------------------
(* C3 *)

Primitives == {"STR", "INT", "FLOAT", "BOOL"}

C3_Wrangler ==
    \A i \in 1..Len(w_log) :
        (w_log[i].ev = "rule" /\ w_log[i].kind \in Primitives
            /\ w_log[i].data # None)
        => IF TypeOf(w_log[i].data) = TypeName(w_log[i].kind)
           THEN WEnds(i + 1)
           ELSE /\ i + 1 <= Len(w_log)
                /\ w_log[i + 1] = WWrite("type", w_log[i].key)
                /\ WEnds(i + 2)
                /\ w_raised = "none" =>
                      "type" \in Keys(SubOf(w_violations.v, w_log[i].key))

C3_Chain ==
    \A i \in 1..Len(v_log) :
        (v_log[i].ev = "BuildInType" /\ v_log[i].rtype.schema_type \in Primitives
            /\ v_log[i].data # None)
        => IF TypeOf(v_log[i].data) = TypeName(v_log[i].rtype.schema_type)
           THEN VEnds(i + 1)
           ELSE /\ IsViolation(i, i + 1, "TypeMismatch")
                /\ VEnds(i + 2)

\* C3: a present value under a rule of kind Str, Int, Float or Bool gets no
\* violation when its type is exactly that primitive and exactly one
\* TypeMismatch otherwise; True under an int or float rule is a mismatch.
C3_PrimitiveExact == C3_Wrangler /\ C3_Chain

\* True under an int rule: the wrangler files a type violation
C3_Witness ==
    /\ pc = "wrangled"
    /\ w_raised = "none"
    /\ \E i \in 1..(Len(w_log) - 1) :
          /\ w_log[i].ev = "rule"
          /\ w_log[i].kind = "INT"
          /\ w_log[i].data = PyBool(TRUE)
          /\ w_log[i + 1] = WWrite("type", w_log[i].key)

----------------------------------------------------------------------------
(* What a direct call of one validator was given, and what the schema       *)
(* source declares for it                                                  *)

\* the type expression the schema source declares for the first field
DeclaredA == schema_content[4].fields[1].type

\* the validator a direct call entered, and its arguments
Called == v_log[1]

RECURSIVE SumSeq(_)
SumSeq(ns) == IF ns = <<>> THEN 0 ELSE Head(ns) + SumSeq(Tail(ns))

\* the elements of a list, or the values of a dict
ItemsOf(d) ==
    IF d.t = "list" THEN d.v ELSE [i \in 1..Len(d.v) |-> d.v[i].v]

RECURSIVE NonConforming(_, _)
\* how many values of d, at any depth, do not conform to type expression e,
\* for e built from str, int, list and map; a container of the wrong shape
\* counts once and its content is not looked at
NonConforming(d, e) ==
    CASE e.op = "str"  -> IF d.t = "str" THEN 0 ELSE 1
      [] e.op = "int"  -> IF d.t = "int" THEN 0 ELSE 1
      [] e.op = "list" ->
            IF d.t # "list" THEN 1
            ELSE SumSeq([i \in 1..Len(d.v) |-> NonConforming(d.v[i], e.arg)])
      [] e.op = "map"  ->
            IF d.t # "dict" THEN 1
            ELSE SumSeq([i \in 1..Len(d.v) |-> NonConforming(d.v[i].v, e.arg)])

RECURSIVE Items(_, _)
\* how many elements (values) d holds, at any depth, under type expression e
Items(d, e) ==
    CASE e.op \in {"str", "int"} -> 0
      [] e.op = "list" ->
            IF d.t # "list" THEN 0
            ELSE Len(d.v) + SumSeq([i \in 1..Len(d.v) |-> Items(d.v[i], e.arg)])
      [] e.op = "map"  ->
            IF d.t # "dict" THEN 0
            ELSE Len(d.v) + SumSeq([i \in 1..Len(d.v) |-> Items(d.v[i].v, e.arg)])

\* the checks the chain started after position 1 of its log
Checks == SelectSeq(SubSeq(v_log, 2, Len(v_log)), LAMBDA e : e.ev = "Optional")

\* a direct call of validator v with a value under a field declared op(...):
\* a value of another shape gets one TypeMismatch and no check is started;
\* a value of the shape shape has each item checked once (Items in all, the
\* items of the value itself in order against the sub type, all with the
\* key and the parent of the call) and gets one violation per
\* non-conforming item
ContainerChecked(v, op, shape) ==
    (pc = "called" /\ Called.ev = v /\ DeclaredA.op = op)
    => IF Called.data.t # shape
       THEN /\ Len(v_log) = 2
            /\ IsViolation(1, 2, "TypeMismatch")
            /\ v_violations = <<v_log[2].violation>>
       ELSE /\ Len(v_violations) = NonConforming(Called.data, DeclaredA)
            /\ Len(Checks) = Items(Called.data, DeclaredA)
            /\ LET own == SelectSeq(Checks,
                              LAMBDA e : e.rtype = Called.rtype.sub_type)
               IN  [i \in 1..Len(own) |-> own[i].data] = ItemsOf(Called.data)
            /\ \A i \in 1..Len(Checks) :
                  /\ Checks[i].key = Called.key
                  /\ Checks[i].parent = Called.parent
                  /\ ~Checks[i].is_required
            /\ \A i \in 1..Len(v_violations) :
                  /\ v_violations[i].cat = "TypeMismatch"
                  /\ v_violations[i].key = Called.key
                  /\ v_violations[i].parent = Called.parent

----------------------------------------------------------------------------
(* C4 *)

\* C4: the List validator given a list checks every element, at every level
\* of list(list(...)), once against the sub type with the key and the parent
\* it was given, so there are as many violations as non-conforming elements;
\* given anything else it appends one TypeMismatch and checks no element.
C4_ListElements == ContainerChecked("List", "list", "list")

\* list(list(int)) on [[1, "x"], 1, [1, "x"]]: three violations
C4_Witness ==
    /\ pc = "called"
    /\ Called.ev = "List"
    /\ DeclaredA = TList(TList(TInt))
    /\ Called.data = PyList(<<PyList(<<PyInt(1), x>>), PyInt(1),
                              PyList(<<PyInt(1), x>>)>>)
    /\ Len(v_violations) = 3

----------------------------------------------------------------------------
(* C5 *)

C5_NotMap ==
    \A i \in 1..Len(v_log) :
        (v_log[i].ev = "Map" /\ v_log[i].rtype.schema_type # "MAP")
        => /\ SameCall(i, i + 1, "Ruleset")
           /\ Cardinality({j \in Pass(i) : v_log[j].ev \in Validators}) =
                 Cardinality({j \in Pass(i) : v_log[j].ev \in {"Ruleset", "EnumType"}})

\* C5: the Map validator given anything but a mapping (None, a string, a
\* list) appends one TypeMismatch and delegates nothing; given a mapping it
\* checks every value once against the sub type, nested maps included, and
\* never a key, so map(str) on {a: "x", b: 2} gets one TypeMismatch; a rule
\* type that is no map is handed unchanged to the next validator.
C5_MapValues == ContainerChecked("Map", "map", "dict") /\ C5_NotMap

\* map(str) on {a: "x", b: 2}: one violation
C5_Witness ==
    /\ pc = "called"
    /\ Called.ev = "Map"
    /\ DeclaredA = TMap(TStr)
    /\ Called.data = PyDict(<<KV("a", x), KV("b", PyInt(2))>>)
    /\ Len(v_violations) = 1

----------------------------------------------------------------------------
(* C6 *)

\* the raw values the schema source gives the items of enum name
RawValues(name) ==
    UNION {{d.items[k][2] : k \in 1..Len(d.items)} :
           d \in {schema_content[n] : n \in {m \in 1..Len(schema_content) :
                     schema_content[m].decl = "enum"
                       /\ schema_content[m].name = name}}}

\* C6: a present value under an enum rule passes exactly when it equals the
\* raw value of one of the enum's items; any other value, the symbolic name
\* of an item included, gets one TypeMismatch that names the enum.
C6_EnumRawValue ==
    \A i \in 1..Len(v_log) :
        (v_log[i].ev = "EnumType" /\ v_log[i].rtype.schema_type = "ENUM"
            /\ v_log[i].data # None)
        => IF v_log[i].data \in RawValues(v_log[i].rtype.lookup)
           THEN VEnds(i + 1)
           ELSE /\ IsAppended(i + 1,
                     TypeViolation(v_log[i].key, v_log[i].parent,
                        <<v_log[i].key, " does not match any value in enum ",
                          v_log[i].rtype.lookup>>))
                /\ VEnds(i + 2)

\* "OK", the symbolic name of an item of Status, is no value of Status
C6_Witness ==
    /\ pc = "validated"
    /\ \E i \in 1..(Len(v_log) - 1) :
          /\ v_log[i].ev = "EnumType"
          /\ v_log[i].rtype.lookup = "Status"
          /\ v_log[i].data = PyStr(<<"O", "K">>)
          /\ v_log[i + 1].ev = "violation"

----------------------------------------------------------------------------
(* C7 *)

----------------------------------------------------------------------------
(* C8 *)

\* C8: the AnyType validator given a rule of kind Any returns at once,
\* whatever the value: no violation, no later validator; a rule type of any
\* other kind is handed unchanged to the next validator.
C8_Any ==
    \A i \in 1..Len(v_log) :
        v_log[i].ev = "AnyType"
        => IF v_log[i].rtype.schema_type = "ANY"
           THEN VEnds(i + 1)
           ELSE \E v \in Validators \ {"AnyType"} : SameCall(i, i + 1, v)

\* a list under a rule of kind Any: the log ends with the AnyType validator
C8_Witness ==
    /\ pc = "called"
    /\ Called.ev = "Optional"
    /\ Called.rtype.schema_type = "ANY"
    /\ Called.data = PyList(<<PyInt(1), x>>)
    /\ v_log[Len(v_log)].ev = "AnyType"
    /\ v_violations = <<>>

----------------------------------------------------------------------------
(* C9 *)

\* a rule of kind Ruleset of the wrangler's log whose value is present
RulesetFields ==
    {i \in 1..Len(w_log) : /\ w_log[i].ev = "rule"
                           /\ w_log[i].kind = "RULESET"
                           /\ w_log[i].data # None}

\* a value that is a mapping is entered with no violation filed, and the
\* ruleset's first rule is checked against it with the field's name as parent
C9_Mapping ==
    \A i \in RulesetFields :
        TypeOf(w_log[i].data) = "dict"
        => /\ i + 2 <= Len(w_log)
           /\ w_log[i + 1].ev = "enter"
           /\ w_log[i + 1].key = w_log[i].key
           /\ w_log[i + 2].ev = "rule"
           /\ w_log[i + 2].parent = w_log[i].key

\* a value that is no mapping files exactly one type violation, and the
\* ruleset's rules are not applied to it: the ruleset is not entered and
\* nothing is raised
C9_NotMapping ==
    \A i \in RulesetFields :
        TypeOf(w_log[i].data) # "dict"
        => /\ i + 1 <= Len(w_log)
           /\ w_log[i + 1] = WWrite("type", w_log[i].key)
           /\ WEnds(i + 2)

\* C9: in the wrangler, a rule of kind Ruleset whose value is present and is
\* no mapping files exactly one type violation and the ruleset's rules are
\* not applied to the value; a value that is a mapping has the ruleset's
\* rules checked against it with the field's name as parent.
C9_RulesetField == C9_Mapping /\ C9_NotMapping

----------------------------------------------------------------------------
(* C10 *)

\* the number of entries of the violations dict the wrangler returned
Entries ==
    SumSeq([i \in 1..Len(w_violations.v) |-> Len(w_violations.v[i].v)])

\* the violations the wrangler found: the writes of its log
Found == {i \in 1..Len(w_log) : w_log[i].ev \in {"type", "required"}}

\* C10: when the wrangler returns, every violation it found is an entry of
\* its own in the result: the result has as many entries as violations were
\* found, none overwrote another.
C10_OwnEntry ==
    (pc = "wrangled" /\ w_raised = "none") => Entries = Cardinality(Found)

----------------------------------------------------------------------------
(* Reading the compiled sources *)

\* the text of a source is accepted by the grammar
WellFormed(content) == lark_parse(content).raised = "none"

\* the places of a source that declare the ruleset or enum n
Declares(content, n) ==
    {i \in 1..Len(content) : /\ content[i].decl \in {"ruleset", "enum"}
                             /\ content[i].name = n}

RECURSIVE RefersTo(_, _)
\* the type expression refers to the construct n
RefersTo(type, n) ==
    \/ type.op = "ref" /\ type.name = n
    \/ type.op \in {"list", "map"} /\ RefersTo(type.arg, n)

\* the places of a source that are a ruleset named a with a field referring to b
Uses(content, a, b) ==
    {i \in 1..Len(content) :
        /\ content[i].decl = "ruleset"
        /\ content[i].name = a
        /\ \E k \in 1..Len(content[i].fields) : RefersTo(content[i].fields[k].type, b)}

\* ruleset a refers to b, and b is declared only later in the source
ForwardReference(content, a, b) ==
    /\ WellFormed(content)
    /\ Declares(content, b) # {}
    /\ \E i \in Uses(content, a, b) : \A j \in Declares(content, b) : i < j

\* the call failed in the tree reduction on the construct n not being found
NotFound(call, n) ==
    /\ call.raised = "SchemaParseError"
    /\ call.ret = None
    /\ call.context = [raised |-> "ConstructNotFoundError", name |-> n]

----------------------------------------------------------------------------
(* C11 *)

\* a forward reference in a compile that starts without b in the table of
\* seen constructs fails on b
C11_FromEmptyTable ==
    \A k \in 1..Len(compiled) :
        (/\ ForwardReference(compiled[k].content, "A", "B")
         /\ "B" \notin Keys(compiled[k].seen))
        => NotFound(compiled[k], "B")

\* C11: every compile of a source in which ruleset A has a field of type B
\* and B is declared later in the same source fails with a construct-not-found
\* error that names B.
C11_ForwardReference ==
    \A k \in 1..Len(compiled) :
        ForwardReference(compiled[k].content, "A", "B")
        => NotFound(compiled[k], "B")

----------------------------------------------------------------------------
(* C12 *)

\* ruleset A has a field of type A, and nothing else of the source is
\* unresolved: every other reference is to a construct declared before it
SelfReference(content) ==
    /\ WellFormed(content)
    /\ Uses(content, "A", "A") # {}
    /\ \A i \in 1..Len(content) : \A k \in 1..Len(content[i].fields) :
          \A n \in {"B", "E"} :
             RefersTo(content[i].fields[k].type, n)
             => \E j \in Declares(content, n) : j < i
    /\ \A i \in 1..Len(content) :
          (content[i].decl = "schema"
             /\ \E k \in 1..Len(content[i].fields) :
                   RefersTo(content[i].fields[k].type, "A"))
          => \E j \in Declares(content, "A") : j < i

\* C12: a source in which ruleset A has a field of type A compiles: the call
\* of parse_schema returns a schema, with A among its rulesets and A's field
\* of kind Ruleset looking up A.
C12_SelfReference ==
    \A k \in 1..Len(compiled) :
        SelfReference(compiled[k].content)
        => /\ compiled[k].raised = "none"
           /\ "A" \in Keys(compiled[k].ret.rules)
           /\ DictGet(compiled[k].ret.rules, "A").rules[1].rtype
                = RuleType("RULESET", "A", None, None)

----------------------------------------------------------------------------
(* C16 *)

\* C16: the outcome of a compile depends on its source alone: every call of
\* parse_schema gives what the same call gives in a process that compiled
\* nothing before, the same schema or the same error.
C16_SourceAlone ==
    \A k \in 1..Len(compiled) :
        LET alone == parse_schema(compiled[k].content, <<>>)
        IN  /\ compiled[k].raised = alone.raised
            /\ compiled[k].ret = alone.ret
            /\ compiled[k].context = alone.context

----------------------------------------------------------------------------
(* C17 *)

SyntaxErrors ==
    {"SchemaSyntaxError", "MalformedRulesetNameError", "MalformedEnumNameError",
     "MissingRulesError"}

\* the class the text's way of failing is labelled with
Labelled(like) ==
    IF like \in MalformedRulesetNameExamples THEN "MalformedRulesetNameError"
    ELSE IF like \in MalformedEnumNameExamples THEN "MalformedEnumNameError"
    ELSE IF like \in MissingRulesExamples THEN "MissingRulesError"
    ELSE "SchemaSyntaxError"

\* the names a source declares with the keyword decl
Declared(content, decl) ==
    {content[i].name : i \in {j \in 1..Len(content) : content[j].decl = decl}}

\* C17: a call of parse_schema either returns a whole schema (every construct
\* of the source in it, never None) or raises: on text the grammar rejects a
\* SchemaSyntaxError, of the labelled subclass when an exemplar matches and
\* the generic class otherwise, carrying context, line and column; on a
\* failure of the tree reduction a SchemaParseError that wraps the
\* construct-not-found error.  Nothing is returned when it raises.
C17_CompileFailure ==
    \A k \in 1..Len(compiled) :
        LET call == compiled[k]
            u    == lark_parse(call.content)
        IN  IF ~WellFormed(call.content)
            THEN /\ call.raised = Labelled(u.like)
                 /\ call.raised \in SyntaxErrors
                 /\ call.args = <<get_context(u, call.content), u.line, u.column>>
                 /\ call.ret = None
            ELSE IF call.raised = "none"
            THEN /\ call.ret # None
                 /\ Keys(call.ret.rules) = Declared(call.content, "ruleset")
                 /\ Keys(call.ret.enums) = Declared(call.content, "enum")
            ELSE /\ call.raised = "SchemaParseError"
                 /\ call.context.raised = "ConstructNotFoundError"
                 /\ call.ret = None

\* a source with text no exemplar matches, then a source with an undeclared
\* type: a generic syntax error, then a parse error
C17_Witness ==
    /\ Len(compiled) = 2
    /\ compiled[1].raised = "SchemaSyntaxError"
    /\ compiled[1].args[2] = 2 /\ compiled[1].args[3] = 9
    /\ compiled[2].raised = "SchemaParseError"
    /\ compiled[2].context.name = "E"
    /\ pc = "compile_error"
    /\ instructions = None

----------------------------------------------------------------------------
(* C20 *)

\* the schema blocks of a source
SchemaBlocks(content) == {i \in 1..Len(content) : content[i].decl = "schema"}

\* C20: in the dict a compile returns, the schema block is the ruleset named
\* main under 'main' (None when the source has no schema block), main is no
\* key of 'rules', every ruleset of the source is in 'rules' under its name
\* and every enum in 'enums' under its name.
C20_EntryPoint ==
    \A k \in 1..Len(compiled) :
        compiled[k].raised = "none"
        => LET content == compiled[k].content
               ret     == compiled[k].ret
           IN  /\ "main" \notin Keys(ret.rules)
               /\ IF SchemaBlocks(content) = {} THEN ret.main = None
                  ELSE /\ ret.main # None
                       /\ ret.main.name = "main"
                       /\ ret.main.type = "RULESET"
                       /\ \E i \in SchemaBlocks(content) :
                             Len(ret.main.rules) = Len(content[i].fields)
               /\ Keys(ret.rules) = Declared(content, "ruleset")
               /\ Keys(ret.enums) = Declared(content, "enum")
               /\ Len(ret.rules) = Cardinality(Keys(ret.rules))
               /\ Len(ret.enums) = Cardinality(Keys(ret.enums))
               /\ \A i \in 1..Len(ret.rules) :
                     /\ ret.rules[i].v.name = ret.rules[i].k
                     /\ ret.rules[i].v.type = "RULESET"
               /\ \A i \in 1..Len(ret.enums) :
                     /\ ret.enums[i].v.name = ret.enums[i].k
                     /\ ret.enums[i].v.type = "ENUM"

\* one enum and the schema block: one enum, no ruleset, main as the root
C20_Witness ==
    /\ pc = "compiled"
    /\ schema_content = <<DeclE, Entry(TRef("E"))>>
    /\ Len(instructions.enums) = 1
    /\ Len(instructions.rules) = 0
    /\ instructions.main = YamlatorRuleset("main",
          <<Rule("r", RuleType("ENUM", "E", None, None), FALSE)>>)

----------------------------------------------------------------------------
(* Reading the loaded schema *)

RECURSIVE TypesOf(_)
\* the RuleType and the sub types below it
TypesOf(rtype) ==
    IF rtype = None THEN {} ELSE {rtype} \cup TypesOf(rtype.sub_type)

\* the RuleTypes of a ruleset's rules
TypesIn(rs) ==
    IF rs = None THEN {}
    ELSE UNION {TypesOf(rs.rules[i].rtype) : i \in 1..Len(rs.rules)}

\* the RuleTypes reachable from the root or from a ruleset of the schema
Reachable(schema) ==
    TypesIn(schema.root)
      \cup UNION {TypesIn(schema.rulesets[i].v) : i \in 1..Len(schema.rulesets)}

\* what root.ys asks for: the names of its import statement, the schema the
\* statement's file gives, and the constructs root.ys declares itself
RootFile == loaded.files["root.ys"]
Requested == {RootFile.imports[1].v[i] : i \in 1..Len(RootFile.imports[1].v)}
Imported == parse_yamlator_schema(RootFile.imports[1].k, loaded.files).schema

----------------------------------------------------------------------------
(* C13 *)

\* C13: parse_yamlator_schema either returns a schema in which no reachable
\* RuleType is of kind UNKNOWN and every lookup is a key of the returned
\* rulesets or enums, or raises ConstructNotFoundError naming a lookup that
\* is in neither table.
C13_Resolved ==
    /\ pc = "loaded"
       => \A t \in Reachable(loaded.schema) :
             /\ t.schema_type # "UNKNOWN"
             /\ t.schema_type \in {"RULESET", "ENUM"}
                => t.lookup \in Keys(loaded.schema.rulesets)
                                  \cup Keys(loaded.schema.enums)
    /\ pc = "load_error"
       => /\ loaded.raised = "ConstructNotFoundError"
          /\ loaded.schema = None
          /\ loaded.merged # None
             => loaded.name \notin Keys(loaded.merged.rulesets)
                                     \cup Keys(loaded.merged.enums)

----------------------------------------------------------------------------
(* C14 *)

\* C14: when the import statements of root.ys have been worked through, its
\* rulesets are the ones it declares and the requested names that are
\* rulesets of the imported schema, its enums the ones it declares and the
\* requested names that are enums of the imported schema; each copied
\* construct is the imported one, nothing that was not requested is copied,
\* and a requested name the imported schema does not define changes neither
\* table and raises nothing: an error of the load names a type that is
\* looked up, never a name that was only requested.
C14_OnlyRequested ==
    (pc \in {"loaded", "load_error"} /\ loaded.merged # None)
    => /\ Keys(loaded.merged.rulesets)
            = Keys(RootFile.rulesets) \cup (Requested \cap Keys(Imported.rulesets))
       /\ Keys(loaded.merged.enums)
            = Keys(RootFile.enums)
                \cup ((Requested \ Keys(Imported.rulesets)) \cap Keys(Imported.enums))
       /\ \A n \in Requested \cap Keys(Imported.rulesets) :
             DictGet(loaded.merged.rulesets, n) = DictGet(Imported.rulesets, n)
       /\ \A n \in Keys(RootFile.rulesets) \ Requested :
             DictGet(loaded.merged.rulesets, n) = DictGet(RootFile.rulesets, n)
       /\ loaded.raised # "none"
          => /\ loaded.raised = "ConstructNotFoundError"
             /\ loaded.name = RootFile.unknowns_rule_types[1].lookup

\* import P, X from "lib.ys" where lib.ys declares P, Q and E: P is copied,
\* Q and E are not, X is passed over and the load returns
C14_Witness ==
    /\ pc = "loaded"
    /\ RootFile.imports = <<KV("lib.ys", <<"P", "X">>)>>
    /\ loaded.files["lib.ys"] = LibPQE
    /\ Keys(loaded.schema.rulesets) = {"L", "P"}
    /\ loaded.schema.enums = <<>>


----------------------------------------------------------------------------
----------------------------------------------------------------------------
\* C19: validation raises only for caller misuse (None data); for every
\* document that is not None and every compiled schema with an entry point,
\* whatever the shape of the document, the run returns normally and reports
\* the non-conformance as violations.
C19_OnlyMisuse ==
    (/\ pc = "wrangled"
     /\ yaml_data # None
     /\ instructions.main # None)
        => /\ w_raised = "none"
           /\ w_violations # None


----------------------------------------------------------------------------
\* C18: the command line returns 0 exactly when validation completed with no
\* violation, and -1 when there is a violation (table or JSON output) or
\* when compiling, resolving or loading failed; no such error leaves main as
\* an uncaught exception.
C18_ExitStatus ==
    pc = "exited" =>
        /\ status.escaped = "none"
        /\ status.returned = SUCCESS <=>
              (status.raised = "none" /\ Len(status.violations) = 0)
        /\ status.returned = ERR <=>
              (status.raised # "none" \/ Len(status.violations) > 0)


----------------------------------------------------------------------------
\* C21: when the unknown types of root.ys are resolved, a type whose lookup
\* is a key of the merged enum table becomes ENUM, also when the name is a
\* key of the merged ruleset table as well; a type whose lookup is a key of
\* the merged ruleset table only becomes RULESET.
C21_EnumFirst ==
    pc = "loaded" =>
       \A t \in TypesIn(loaded.schema.root) :
          "id" \in DOMAIN t =>
             /\ t.lookup \in Keys(loaded.merged.enums) => t.schema_type = "ENUM"
             /\ (/\ t.lookup \notin Keys(loaded.merged.enums)
                 /\ t.lookup \in Keys(loaded.merged.rulesets))
                   => t.schema_type = "RULESET"

\* root.ys declares ruleset E and imports enum E: the name is in both merged
\* tables and the type looked up as E has become ENUM
C21_Witness ==
    /\ pc = "loaded"
    /\ "E" \in Keys(loaded.merged.enums) \cap Keys(loaded.merged.rulesets)
    /\ \E t \in TypesIn(loaded.schema.root) :
          /\ "id" \in DOMAIN t
          /\ t.lookup = "E"
          /\ t.schema_type = "ENUM"


----------------------------------------------------------------------------
(* Reading a load with two import statements *)

\* the schema the file of import statement i gives
ImportedAt(i) == parse_yamlator_schema(RootFile.imports[i].k, loaded.files).schema

\* import statement i asks for n
Asks(i, n) ==
    \E j \in 1..Len(RootFile.imports[i].v) : RootFile.imports[i].v[j] = n

\* import statement i asks for n and its file declares n
ProvidesSome(i, n) ==
    /\ Asks(i, n)
    /\ n \in Keys(ImportedAt(i).rulesets) \cup Keys(ImportedAt(i).enums)

\* import statement i asks for n and its file declares n as a construct of
\* the table
Provides(i, n, table) == Asks(i, n) /\ n \in Keys(ImportedAt(i)[table])

\* the statements providing n for the table, and the last of them
Providers(n, table) == {i \in 1..Len(RootFile.imports) : Provides(i, n, table)}
Last(S) == CHOOSE i \in S : \A j \in S : j <= i

TwoImports == pc \in {"imported", "import_error"} /\ loaded.merged # None

----------------------------------------------------------------------------
----------------------------------------------------------------------------
\* C25: fetch_schema_path raises only ValueError, and only for None or an
\* argument that is no string; for every non-empty string, a bare file name
\* and a path with forward slashes included, it returns a directory.
C25_Directory ==
    (pc = "fetched" /\ fetched.schema_path # PyStr(<<>>)) =>
       /\ fetched.raised \in {"none", "ValueError"}
       /\ fetched.raised = "ValueError" <=> TypeOf(fetched.schema_path) # "str"
       /\ fetched.raised = "none" => TypeOf(fetched.ret) = "str"


----------------------------------------------------------------------------
(* Reading the import graph of a load *)

\* the files the import statements of f name
ImportsOf(f) == {file_at(loader.graph[f][i]) : i \in 1..Len(loader.graph[f])}

\* the files reached from the files of S by import statements, S included
Closure(S) ==
    LET S1 == S \cup UNION {ImportsOf(f) : f \in S}
        S2 == S1 \cup UNION {ImportsOf(f) : f \in S1}
    IN  S2 \cup UNION {ImportsOf(f) : f \in S2}

\* an import chain from the root file comes back to a file it passed
Cyclic == \E f \in Closure({"a"}) : f \in Closure(ImportsOf(f))

RECURSIVE Preorder(_)
RECURSIVE PreorderAll(_)
\* the files of an import graph without a cycle in the order a depth-first
\* walk from f meets them, a file once for every import statement that
\* leads to it
Preorder(f) == <<f>> \o PreorderAll(loader.graph[f])
PreorderAll(paths) ==
    IF paths = <<>> THEN <<>>
    ELSE Preorder(file_at(Head(paths))) \o PreorderAll(Tail(paths))

IsPrefix(s, t) == Len(s) <= Len(t) /\ s = SubSeq(t, 1, Len(s))

Ended == pc \in {"returned", "load_failed"}

\* no cycle: the calls nest no deeper than there are files, nothing is
\* raised, the files are loaded in depth-first order and when the load
\* returns every import statement on the way was loaded once.
\* a cycle: the load never returns; the calls nest up to the limit of the
\* interpreter, with a file loaded again and again
DepthFirstNoGuard ==
    IF ~Cyclic
    THEN /\ Len(loader.stack) <= 3
         /\ loader.outcome = "none"
         /\ IsPrefix(loader.loads, Preorder("a"))
         /\ pc = "returned" => loader.loads = Preorder("a")
    ELSE /\ pc # "returned"
         /\ loader.outcome \in {"none", "RecursionError"}
         /\ pc = "load_failed"
            => /\ Len(loader.stack) = MaxDepth
               /\ \E i, j \in 1..Len(loader.loads) :
                     i < j /\ loader.loads[i] = loader.loads[j]

\* the imported path is joined with a slash and fetch_schema_path finds no
\* backslash in it: the first imported file is loaded and the load ends
FirstImportFails ==
    /\ Len(loader.stack) <= 1
    /\ Len(loader.loads) <= 2
    /\ loader.outcome \in {"none", "TypeError"}
    /\ pc = "returned" => loader.graph["a"] = <<>>
    /\ pc = "load_failed" => Len(loader.loads) = 2

----------------------------------------------------------------------------
----------------------------------------------------------------------------
(* C22 *)

\* the rulesets of a compiled schema, the entry point included
RulesetsOf(ret) ==
    {ret.rules[i].v : i \in 1..Len(ret.rules)}
      \cup (IF ret.main = None THEN {} ELSE {ret.main})

\* C22: a source that declares a field name twice in one ruleset compiles
\* without an error, and every compiled ruleset holds one rule for each
\* field name.
C22_LastWriteWins ==
    \A k \in 1..Len(compiled) :
       /\ (/\ WellFormed(compiled[k].content)
           /\ \E i \in 1..Len(compiled[k].content) :
                 /\ compiled[k].content[i].decl \in {"ruleset", "schema"}
                 /\ Len(compiled[k].content[i].fields) = 2
                 /\ compiled[k].content[i].fields[1].name
                       = compiled[k].content[i].fields[2].name)
          => compiled[k].raised = "none"
       /\ compiled[k].raised = "none"
          => \A rs \in RulesetsOf(compiled[k].ret) :
                \A i, j \in 1..Len(rs.rules) :
                   rs.rules[i].name = rs.rules[j].name => i = j

====
